---- MODULE Spec2Model ----
(***************************************************************************)
(* A model of the gaubongai data-management library: the DataContainer     *)
(* value object, the loader registry (PluginManager), the transform        *)
(* registry and pipelines (PipelineManager), the quality-check registry    *)
(* (QualityManager) and its completeness check, the column transformer     *)
(* (PandasDfTransformer), the text cleaner, the analyzer registry          *)
(* (EDAManager), the DataStorage, the DataProcessingManager, the           *)
(* DataProcessor, the two DataContextManager implementations and the       *)
(* OrchestratorAgent of gauai.                                             *)
(*                                                                         *)
(* The library is single-threaded and synchronous, so every public method  *)
(* is one atomic action.  Each subsystem has its own variables and its own *)
(* specification; an action leaves the other subsystems' variables alone.  *)
(***************************************************************************)
EXTENDS Integers, Sequences, FiniteSets, TLC

VARIABLES
    heap,          \* the Python object heap: address -> object (or Free)
    container,     \* the DataContainer under observation (or NoContainer)
    snapshot,      \* what the container showed right after construction
    plugins,       \* PluginManager.plugins: extension -> list of loader classes
    pluginCall,    \* the last PluginManager call, its arguments and outcome
    processors,    \* PipelineManager._processors: name -> processor object
    pipelines,     \* PipelineManager._pipelines: name -> list of step names
    pipeCall,      \* the last PipelineManager call, what it saw and its outcome
    checks,        \* QualityManager.checks: name -> check object
    checkOrder,    \* the insertion order of QualityManager.checks' keys
    checkCall,     \* the last QualityManager call, what it saw and its outcome
    subject,       \* the container CompletenessCheck.check is called with
    transformer,   \* the PandasDfTransformer instance (its six option maps)
    dfCall,        \* the last PandasDfTransformer call, its input and outcome
    current,       \* the container a caller threads through successive transforms
    applied,       \* the transforms that returned so far, in application order
    stepCall,      \* the last transform of the chain, its input and outcome
    analyzers,     \* EDAManager._analyzers: name -> analyzer instance
    analyzerOrder, \* the insertion order of EDAManager._analyzers' keys
    edaCall,       \* the last EDAManager call, what it saw and its outcome
    storage,       \* DataStorage._storage: category -> name -> container object
    objects,       \* the container objects the storage refers to: identity -> value
    storageCall,   \* the last DataStorage call, what it saw and its outcome
    managerCall,   \* the last DataProcessingManager call, what it saw and its outcome
    impl,          \* which DataContextManager runs: context.py or managers.py
    contexts,      \* DataContextManager._contexts: name -> context object
    created,       \* the names created and not deleted since
    ctxCall,       \* the last DataContextManager call, what it saw and its outcome
    agents,        \* OrchestratorAgent.agents: name -> agent object
    execution_history,  \* OrchestratorAgent.execution_history
    current_context,    \* OrchestratorAgent.current_context
    workflowCall   \* the last OrchestratorAgent call, what it saw and what it returned

containerVars == <<heap, container, snapshot>>
pluginVars == <<plugins, pluginCall>>
pipelineVars == <<processors, pipelines, pipeCall>>
qualityVars == <<checks, checkOrder, checkCall, subject>>
dfVars == <<transformer, dfCall>>
stepVars == <<current, applied, stepCall>>
edaVars == <<analyzers, analyzerOrder, edaCall>>
storageVars == <<storage, objects, storageCall>>
managerVars == <<managerCall>>
contextVars == <<impl, contexts, created, ctxCall>>
orchestratorVars == <<agents, execution_history, current_context, workflowCall>>
vars == <<heap, container, snapshot, plugins, pluginCall, processors, pipelines,
          pipeCall, checks, checkOrder, checkCall, subject, transformer, dfCall, current, applied, stepCall,
          analyzers, analyzerOrder, edaCall,
          storage, objects, storageCall, managerCall,
          impl, contexts, created, ctxCall,
          agents, execution_history, current_context, workflowCall>>

\* Python's None, and the marker of "no call has been made yet".
None == "None"
NoCall == [op |-> "none"]

\* The keys of a dict modelled as a function.
Keys(d) == DOMAIN d

\* d[k] = v on a dict: adds the key or overwrites its value.
DictSet(d, k, v) == [x \in (DOMAIN d) \cup {k} |-> IF x = k THEN v ELSE d[x]]

\* The empty dict.
EmptyDict == [x \in {} |-> None]

\* The indices of a sequence, as a set.
Indices(s) == 1..Len(s)

\* DataContainer(data, metadata, category, source_path), seen as a value.
DataContainer(data, metadata, category, source_path) ==
    [data |-> data, metadata |-> metadata, category |-> category,
     source_path |-> source_path]

(***************************************************************************)
(* DataContainer: construction deep-copies data, metadata and notes.       *)
(*                                                                         *)
(* The heap holds the caller's three objects and the container's three.    *)
(* An object is a mutable collection (a dict, a list, a DataFrame) whose   *)
(* elements are themselves mutable objects (a nested list, a column), so a *)
(* node holds the addresses of its elements and a leaf holds a value.      *)
(***************************************************************************)
MaxKids == 1

Fields == {"data", "metadata", "notes"}
Owners == {"caller", "container"}
LeafValues == {0, 1}
Free == [kind |-> "free"]
NoContainer == [kind |-> "none"]

NodeAddr(owner, f) == <<owner, f>>
LeafAddr(owner, f, i) == <<owner, f, i>>

Node(kids) == [kind |-> "node", kids |-> kids]
Leaf(v) == [kind |-> "leaf", val |-> v]

\* What a reader sees through a reference: the values of the elements, in order.
Observed(h, a) == [i \in Indices(h[a].kids) |-> h[h[a].kids[i]].val]

\* copy.copy: a new outer object that shares the elements of the original.
ShallowCopy(h, src, f) ==
    [ref |-> NodeAddr("container", f),
     heap |-> [h EXCEPT ![NodeAddr("container", f)] = Node(h[src].kids)]]

\* copy.deepcopy: a new outer object holding new copies of the elements.
DeepCopy(h, src, f) ==
    LET n == Len(h[src].kids)
        newKids == [i \in 1..n |-> LeafAddr("container", f, i)]
    IN [ref |-> NodeAddr("container", f),
        heap |-> [a \in DOMAIN h |->
                    IF a = NodeAddr("container", f) THEN Node(newKids)
                    ELSE IF \E i \in 1..n : a = LeafAddr("container", f, i)
                         THEN h[h[src].kids[CHOOSE i \in 1..n : a = LeafAddr("container", f, i)]]
                         ELSE h[a]]]

\* DataContainer.__post_init__, the same in interfaces.py and in types.py:
\* each of data, metadata, notes is replaced by a deep copy of what was passed.
PostInit(h, args) ==
    LET d == DeepCopy(h, args.data, "data")
        m == DeepCopy(d.heap, args.metadata, "metadata")
        n == DeepCopy(m.heap, args.notes, "notes")
    IN [heap |-> n.heap,
        self |-> [kind |-> "container", data |-> d.ref, metadata |-> m.ref,
                  notes |-> n.ref, category |-> args.category]]

Addrs ==
    {NodeAddr(o, f) : o \in Owners, f \in Fields}
    \cup {LeafAddr(o, f, i) : o \in Owners, f \in Fields, i \in 1..MaxKids}

ContainerInit ==
    /\ heap = [a \in Addrs |->
                 IF \E f \in Fields : a = NodeAddr("caller", f)
                 THEN Node(<<>>) ELSE Free]
    /\ container = NoContainer
    /\ snapshot = NoContainer

\* DataContainer(data=..., metadata=..., category=..., notes=...): the caller
\* passes its three objects; the module it comes from does not matter.
Construct(module, category) ==
    /\ container = NoContainer
    /\ LET r == PostInit(heap, [data |-> NodeAddr("caller", "data"),
                                metadata |-> NodeAddr("caller", "metadata"),
                                notes |-> NodeAddr("caller", "notes"),
                                category |-> category])
       IN /\ heap' = r.heap
          /\ container' = r.self
          /\ snapshot' = [f \in Fields |-> Observed(r.heap, r.self[f])]
    /\ UNCHANGED <<pluginVars, pipelineVars, qualityVars, dfVars, stepVars, edaVars, storageVars, managerVars, contextVars, orchestratorVars>>

\* The caller adds an element to one of its objects (metadata["k"] = [...],
\* notes.append(...), df["c"] = ...).
CallerAppend(f, v) ==
    LET a == NodeAddr("caller", f)
        n == Len(heap[a].kids)
    IN /\ n < MaxKids
       /\ heap' = [heap EXCEPT ![a] = Node(Append(heap[a].kids, LeafAddr("caller", f, n + 1))),
                               ![LeafAddr("caller", f, n + 1)] = Leaf(v)]
       /\ UNCHANGED <<container, snapshot, pluginVars, pipelineVars, qualityVars, dfVars, stepVars, edaVars, storageVars, managerVars, contextVars, orchestratorVars>>

\* The caller changes an element of one of its objects in place
\* (metadata["k"].append(...), df.loc[0, "c"] = ...).
CallerMutate(f, i) ==
    LET a == NodeAddr("caller", f)
    IN /\ i \in Indices(heap[a].kids)
       /\ heap' = [heap EXCEPT ![heap[a].kids[i]] = Leaf(1 - heap[heap[a].kids[i]].val)]
       /\ UNCHANGED <<container, snapshot, pluginVars, pipelineVars, qualityVars, dfVars, stepVars, edaVars, storageVars, managerVars, contextVars, orchestratorVars>>

(***************************************************************************)
(* PluginManager (managers.py): loaders keyed by file extension.           *)
(***************************************************************************)

\* The loader classes: the two of plugins/csv_plugin.py and the three mock
\* loaders of tests/data_management/test_managers.py.
PandasCSVPlugin == [cls |-> "PandasCSVPlugin", name |-> "pandas_csv",
                    supported_extensions |-> <<".csv">>, priority |-> 1]
PolarsCSVPlugin == [cls |-> "PolarsCSVPlugin", name |-> "polars_csv",
                    supported_extensions |-> <<".csv">>, priority |-> 2]
MockPlugin == [cls |-> "MockPlugin", name |-> "mock_plugin",
               supported_extensions |-> <<".mock">>, priority |-> 1]
MockMemoryEfficientPlugin == [cls |-> "MockMemoryEfficientPlugin", name |-> "mock_memory_efficient",
                              supported_extensions |-> <<".mock">>, priority |-> 2]
MockPerformancePlugin == [cls |-> "MockPerformancePlugin", name |-> "mock_performance",
                          supported_extensions |-> <<".mock">>, priority |-> 3]

PluginClasses == {PandasCSVPlugin, PolarsCSVPlugin, MockPlugin,
                  MockMemoryEfficientPlugin, MockPerformancePlugin}
\* Path.suffix of the paths that are looked up.
Suffixes == {".csv", ".mock", ".txt"}
PluginNames == {p.name : p \in PluginClasses} \cup {"nonexistent"}

\* The elements of a sequence, as a set.
Range(s) == {s[i] : i \in Indices(s)}

\* list.sort(key=...) is stable: an element goes after every element whose
\* key is not greater than its own.
RECURSIVE InsertByKey(_, _)
InsertByKey(sorted, p) ==
    IF sorted = <<>> THEN <<p>>
    ELSE IF sorted[Len(sorted)].priority <= p.priority
         THEN Append(sorted, p)
         ELSE Append(InsertByKey(SubSeq(sorted, 1, Len(sorted) - 1), p), sorted[Len(sorted)])

\* self.plugins[ext].sort(key=lambda p: p.priority): ascending by priority.
RECURSIVE SortByPriority(_)
SortByPriority(s) ==
    IF s = <<>> THEN <<>>
    ELSE InsertByKey(SortByPriority(SubSeq(s, 1, Len(s) - 1)), s[Len(s)])

\* The body of register_plugin's loop for the extensions from the i-th on.
RECURSIVE RegisterExtensions(_, _, _)
RegisterExtensions(reg, plugin_class, i) ==
    IF i > Len(plugin_class.supported_extensions) THEN reg
    ELSE LET ext == plugin_class.supported_extensions[i]
             r1 == IF ext \notin Keys(reg) THEN DictSet(reg, ext, <<>>) ELSE reg
             r2 == IF plugin_class \notin Range(r1[ext])
                   THEN DictSet(r1, ext, SortByPriority(Append(r1[ext], plugin_class)))
                   ELSE r1
         IN RegisterExtensions(r2, plugin_class, i + 1)

\* PluginManager.register_plugin: it has no raise statement.
RegisterPluginResult(reg, plugin_class) ==
    [plugins |-> RegisterExtensions(reg, plugin_class, 1), outcome |-> "returned"]

\* PluginManager.get_plugin(file_path, plugin_name).
GetPluginResult(reg, ext, plugin_name) ==
    IF ext \notin Keys(reg) THEN [kind |-> "None"]
    ELSE LET available_plugins == reg[ext]
             named == {i \in Indices(available_plugins) : available_plugins[i].name = plugin_name}
         IN IF plugin_name # None
            THEN IF named # {}
                 THEN [kind |-> "instance",
                       cls |-> available_plugins[CHOOSE i \in named : \A j \in named : i <= j]]
                 ELSE [kind |-> "ValueError", msg |-> "not found",
                       available |-> [i \in Indices(available_plugins) |-> available_plugins[i].name]]
            ELSE IF available_plugins # <<>>
                 THEN [kind |-> "instance", cls |-> available_plugins[1]]
                 ELSE [kind |-> "None"]

\* PluginManager.__init__ runs _load_plugins, which registers the loaders of
\* the plugins package in dir() order, or registers nothing when the package
\* cannot be imported (the error is printed and swallowed).
LoadPlugins(imported) ==
    IF imported
    THEN RegisterExtensions(RegisterExtensions(EmptyDict, PandasCSVPlugin, 1), PolarsCSVPlugin, 1)
    ELSE EmptyDict

PluginInit ==
    /\ \E imported \in BOOLEAN : plugins = LoadPlugins(imported)
    /\ pluginCall = NoCall

PluginIdle ==
    /\ plugins = EmptyDict
    /\ pluginCall = NoCall

register_plugin(plugin_class) ==
    LET r == RegisterPluginResult(plugins, plugin_class)
    IN /\ plugins' = r.plugins
       /\ pluginCall' = [op |-> "register_plugin", plugin_class |-> plugin_class,
                         before |-> plugins, outcome |-> r.outcome]
       /\ UNCHANGED <<containerVars, pipelineVars, qualityVars, dfVars, stepVars, edaVars, storageVars, managerVars, contextVars, orchestratorVars>>

get_plugin(ext, plugin_name) ==
    /\ pluginCall' = [op |-> "get_plugin", ext |-> ext, plugin_name |-> plugin_name,
                      before |-> plugins, outcome |-> GetPluginResult(plugins, ext, plugin_name)]
    /\ UNCHANGED <<plugins, containerVars, pipelineVars, qualityVars, dfVars, stepVars, edaVars, storageVars, managerVars, contextVars, orchestratorVars>>

(***************************************************************************)
(* PipelineManager (managers.py): named transform steps and pipelines.     *)
(***************************************************************************)
MaxSteps == 2
Modulus == 3

Categories == {"TABULAR", "TEXT"}

\* The containers handed to a pipeline: a category and a payload.
PipeContainers == [category : Categories, data : 0..(Modulus - 1)]

\* The processor objects that get registered.  Two of them declare the same
\* name.  Their behaviours are those of the transforms the repository has:
\*   double      MockTransformation of test_managers.py (B = A * 2)
\*   increment   SecondTransformation of test_managers.py (C = B + 1)
\*   strict      a transform whose can_transform raises on a tabular payload
\*               that lacks its columns, as PandasDfTransformer's does
\* All three support the TABULAR category only.
Processors ==
    {[id |-> 1, name |-> "mock_transform", kind |-> "double"],
     [id |-> 2, name |-> "second_transform", kind |-> "increment"],
     [id |-> 3, name |-> "mock_transform", kind |-> "increment"],
     [id |-> 4, name |-> "pandas_df_transformer", kind |-> "strict"]}
StepNames == {"mock_transform", "second_transform", "pandas_df_transformer", "invalid"}
PipelineNames == {"test"}

RECURSIVE SeqsUpTo(_, _)
SeqsUpTo(S, n) ==
    IF n = 0 THEN {<<>>}
    ELSE LET shorter == SeqsUpTo(S, n - 1)
         IN shorter \cup {Append(q, x) : q \in {r \in shorter : Len(r) = n - 1}, x \in S}

StepLists == SeqsUpTo(StepNames, MaxSteps)

\* processor.can_transform(data_info): "true", "false" or "raise".
CanTransform(processor, data_info) ==
    CASE processor.kind = "strict" ->
            IF data_info.category # "TABULAR" THEN "false"
            ELSE IF data_info.data = 0 THEN "raise" ELSE "true"
      [] OTHER ->
            IF data_info.category = "TABULAR" THEN "true" ELSE "false"

\* processor.transform(data_info): a new container.
Transform(processor, data_info) ==
    CASE processor.kind = "double" ->
            [data_info EXCEPT !.data = (2 * data_info.data) % Modulus]
      [] processor.kind = "increment" ->
            [data_info EXCEPT !.data = (data_info.data + 1) % Modulus]
      [] OTHER -> data_info

\* The loop of _execute_steps from the i-th step on; acc is the loop's state:
\* result, and the record of which step was given what and returned what.
RECURSIVE ExecuteLoop(_, _, _, _)
ExecuteLoop(acc, steps, procs, i) ==
    IF i > Len(steps) THEN acc
    ELSE IF steps[i] \notin Keys(procs) THEN [kind |-> "KeyError", step |-> steps[i]]
    ELSE LET processor == procs[steps[i]]
             can == CanTransform(processor, acc.result)
         IN IF can = "raise" THEN [kind |-> "ValueError", step |-> steps[i]]
            ELSE IF can = "true"
                 THEN LET out == Transform(processor, acc.result)
                      IN ExecuteLoop([kind |-> "returned", result |-> out,
                                      applied |-> Append(acc.applied,
                                                         [step |-> i, received |-> acc.result,
                                                          returned |-> out])],
                                     steps, procs, i + 1)
                 ELSE ExecuteLoop(acc, steps, procs, i + 1)

\* Each step is handed the pipeline's input instead of the previous result.
ExecuteStepsFromInput(data_info, steps, procs) ==
    LET applicable == {i \in Indices(steps) :
                          steps[i] \in Keys(procs)
                          /\ CanTransform(procs[steps[i]], data_info) = "true"}
        last == CHOOSE i \in applicable : \A j \in applicable : j <= i
        ith(k) == CHOOSE i \in applicable : Cardinality({j \in applicable : j <= i}) = k
    IN IF \E i \in Indices(steps) : steps[i] \in Keys(procs)
                                     /\ CanTransform(procs[steps[i]], data_info) = "raise"
       THEN [kind |-> "ValueError", step |-> None]
       ELSE [kind |-> "returned",
             result |-> IF applicable = {} THEN data_info
                        ELSE Transform(procs[steps[last]], data_info),
             applied |-> [k \in 1..Cardinality(applicable) |->
                            [step |-> ith(k), received |-> data_info,
                             returned |-> Transform(procs[steps[ith(k)]], data_info)]]]

\* PipelineManager._execute_steps(data_info, steps, processors).
ExecuteSteps(data_info, steps, procs) ==
    ExecuteLoop([kind |-> "returned", result |-> data_info, applied |-> <<>>],
                steps, procs, 1)

\* Every name is taken as new.
RegisterProcessorOverwrite(procs, processor) ==
    [processors |-> DictSet(procs, processor.name, processor),
     outcome |-> [kind |-> "returned"]]

\* PipelineManager.register_processor(processor).
RegisterProcessorResult(procs, processor) ==
    IF processor.name \in Keys(procs)
    THEN [processors |-> procs,
          outcome |-> [kind |-> "ValueError", msg |-> "already exists", name |-> processor.name]]
    ELSE [processors |-> DictSet(procs, processor.name, processor),
          outcome |-> [kind |-> "returned"]]

\* The validation loop of create_pipeline: the first step that is no
\* registered processor, or None.
FirstInvalid(procs, steps) ==
    LET bad == {i \in Indices(steps) : steps[i] \notin Keys(procs)}
    IN IF bad = {} THEN None
       ELSE steps[CHOOSE i \in bad : \A j \in bad : i <= j]

\* The steps are stored without being checked.
CreatePipelineUnchecked(pipes, procs, name, steps) ==
    IF name \in Keys(pipes)
    THEN [pipelines |-> pipes,
          outcome |-> [kind |-> "ValueError", msg |-> "already exists", name |-> name]]
    ELSE [pipelines |-> DictSet(pipes, name, steps), outcome |-> [kind |-> "returned"]]

\* PipelineManager.create_pipeline(name, steps).
CreatePipelineResult(pipes, procs, name, steps) ==
    IF name \in Keys(pipes)
    THEN [pipelines |-> pipes,
          outcome |-> [kind |-> "ValueError", msg |-> "already exists", name |-> name]]
    ELSE IF FirstInvalid(procs, steps) # None
         THEN [pipelines |-> pipes,
               outcome |-> [kind |-> "ValueError", msg |-> "Invalid processor",
                            name |-> FirstInvalid(procs, steps)]]
         ELSE [pipelines |-> DictSet(pipes, name, steps), outcome |-> [kind |-> "returned"]]

PipelineInit ==
    /\ processors = EmptyDict
    /\ pipelines = EmptyDict
    /\ pipeCall = NoCall

register_processor(processor) ==
    LET r == RegisterProcessorResult(processors, processor)
    IN /\ processors' = r.processors
       /\ pipeCall' = [op |-> "register_processor", processor |-> processor,
                       before |-> processors, outcome |-> r.outcome]
       /\ UNCHANGED <<pipelines, containerVars, pluginVars, qualityVars, dfVars, stepVars, edaVars, storageVars, managerVars, contextVars, orchestratorVars>>

create_pipeline(name, steps) ==
    LET r == CreatePipelineResult(pipelines, processors, name, steps)
    IN /\ pipelines' = r.pipelines
       /\ pipeCall' = [op |-> "create_pipeline", name |-> name, steps |-> steps,
                       before |-> pipelines, outcome |-> r.outcome]
       /\ UNCHANGED <<processors, containerVars, pluginVars, qualityVars, dfVars, stepVars, edaVars, storageVars, managerVars, contextVars, orchestratorVars>>

\* get_pipeline(name).execute(data_info) on a stored pipeline.
execute(name, data_info) ==
    /\ name \in Keys(pipelines)
    /\ pipeCall' = [op |-> "execute", name |-> name, data_info |-> data_info,
                    outcome |-> ExecuteSteps(data_info, pipelines[name], processors)]
    /\ UNCHANGED <<processors, pipelines, containerVars, pluginVars, qualityVars, dfVars, stepVars, edaVars, storageVars, managerVars, contextVars, orchestratorVars>>

\* The transformer lists a DataProcessor is constructed with.
TransformerLists == SeqsUpTo(Processors, MaxSteps)

\* The loop of DataProcessor.process_data_container (and of process_file
\* after the load) from the i-th transformer on: a transformer whose
\* can_transform returns False ends the call with a ValueError.
RECURSIVE ProcessLoop(_, _, _)
ProcessLoop(data_container, transformers, i) ==
    IF i > Len(transformers) THEN [kind |-> "returned", result |-> data_container]
    ELSE LET each == transformers[i]
             can == CanTransform(each, data_container)
         IN IF can = "raise" THEN [kind |-> "ValueError", step |-> each.name]
            ELSE IF can = "true"
                 THEN ProcessLoop(Transform(each, data_container), transformers, i + 1)
                 ELSE [kind |-> "ValueError", step |-> each.name,
                       msg |-> "cannot transform the data"]

\* DataProcessor(transformers=transformers).process_data_container(data_container).
process_data_container(transformers, data_container) ==
    /\ pipeCall' = [op |-> "process_data_container", transformers |-> transformers,
                    data_info |-> data_container,
                    outcome |-> ProcessLoop(data_container, transformers, 1)]
    /\ UNCHANGED <<processors, pipelines, containerVars, pluginVars, qualityVars, dfVars, stepVars, edaVars, storageVars, managerVars, contextVars, orchestratorVars>>

(***************************************************************************)
(* QualityManager (analysis/quality/manager.py): named quality checks.     *)
(***************************************************************************)

\* The check objects: the built-in CompletenessCheck and the checks a caller
\* registers, two of which declare the same name and one the built-in's.
CompletenessCheck == [id |-> 0, name |-> "completeness_check", kind |-> "completeness"]
Checks ==
    {CompletenessCheck,
     [id |-> 1, name |-> "custom_check", kind |-> "passing"],
     [id |-> 2, name |-> "custom_check", kind |-> "raising"],
     [id |-> 3, name |-> "completeness_check", kind |-> "passing"],
     [id |-> 4, name |-> "range_check", kind |-> "raising"]}

\* Every name is taken as new.
RegisterCheckOverwrite(chks, check) ==
    [checks |-> DictSet(chks, check.name, check), outcome |-> [kind |-> "returned"]]

\* QualityManager.register_check(check).
RegisterCheckResult(chks, check) ==
    IF check.name \in Keys(chks)
    THEN [checks |-> chks,
          outcome |-> [kind |-> "ValueError", msg |-> "already exists", name |-> check.name]]
    ELSE [checks |-> DictSet(chks, check.name, check), outcome |-> [kind |-> "returned"]]

\* QualityManager.__init__: _register_default_checks registers the built-in.
QualityInit ==
    /\ checks = RegisterCheckResult(EmptyDict, CompletenessCheck).checks
    /\ checkOrder = <<CompletenessCheck.name>>
    /\ checkCall = NoCall

register_check(check) ==
    LET r == RegisterCheckResult(checks, check)
    IN /\ checks' = r.checks
       /\ checkOrder' = IF r.outcome.kind = "returned"
                        THEN Append(checkOrder, check.name) ELSE checkOrder
       /\ checkCall' = [op |-> "register_check", check |-> check,
                        before |-> checks, outcome |-> r.outcome]
       /\ UNCHANGED subject
       /\ UNCHANGED <<containerVars, pluginVars, pipelineVars, dfVars, stepVars, edaVars, storageVars, managerVars, contextVars, orchestratorVars>>

(***************************************************************************)
(* float64 arithmetic, as far as CompletenessCheck uses it: the quotient   *)
(* of two positive integers, a product with a small integer and a          *)
(* comparison.  A positive float64 is 1.b2...b53 * 2^exp, kept as its      *)
(* exponent and its 53 significand bits; results are rounded to nearest,   *)
(* ties to even.                                                           *)
(***************************************************************************)
Precision == 53

Float(exp, bits) == [exp |-> exp, bits |-> bits]

\* One unit in the last place more, for a significand that is not all ones.
RECURSIVE AddOne(_, _)
AddOne(bits, i) ==
    IF bits[i] = 0 THEN [bits EXCEPT ![i] = 1]
    ELSE AddOne([bits EXCEPT ![i] = 0], i - 1)

\* Round to nearest, ties to even: guard is the first bit cut off, sticky
\* tells whether any later bit is set.
RoundNearestEven(f, guard, sticky) ==
    IF guard /\ (sticky \/ f.bits[Precision] = 1)
    THEN IF \A i \in 1..Precision : f.bits[i] = 1
         THEN Float(f.exp + 1, [i \in 1..Precision |-> IF i = 1 THEN 1 ELSE 0])
         ELSE Float(f.exp, AddOne(f.bits, Precision))
    ELSE f

\* The least doubling of k that reaches n, and how often k was doubled.
RECURSIVE Normalised(_, _, _)
Normalised(num, n, e) ==
    IF num >= n THEN [num |-> num, e |-> e] ELSE Normalised(2 * num, n, e - 1)

\* Long division: the significand bits after the leading one.
RECURSIVE DivideBits(_, _, _)
DivideBits(r, n, bits) ==
    IF Len(bits) = Precision THEN [bits |-> bits, r |-> r]
    ELSE IF 2 * r >= n THEN DivideBits(2 * r - n, n, Append(bits, 1))
    ELSE DivideBits(2 * r, n, Append(bits, 0))

\* k / n in float64, for integers 0 < k <= n.
TrueDivide(k, n) ==
    LET nz == Normalised(k, n, 0)
        d == DivideBits(nz.num - n, n, <<1>>)
        guard == 2 * d.r >= n
        rest == IF guard THEN 2 * d.r - n ELSE 2 * d.r
    IN RoundNearestEven(Float(nz.e, d.bits), guard, rest > 0)

\* The bits of c times the integer that bits spell, most significant first.
RECURSIVE CarryBits(_, _)
CarryBits(carry, out) ==
    IF carry = 0 THEN out ELSE CarryBits(carry \div 2, <<carry % 2>> \o out)
RECURSIVE TimesBits(_, _, _, _, _)
TimesBits(bits, i, c, carry, out) ==
    IF i = 0 THEN CarryBits(carry, out)
    ELSE TimesBits(bits, i - 1, c, (c * bits[i] + carry) \div 2,
                   <<(c * bits[i] + carry) % 2>> \o out)

\* f * c in float64, for an integer c >= 2.
Times(f, c) ==
    LET p == TimesBits(f.bits, Precision, c, 0, <<>>)
    IN RoundNearestEven(Float(f.exp + Len(p) - Precision, SubSeq(p, 1, Precision)),
                        p[Precision + 1] = 1,
                        \E i \in (Precision + 2)..Len(p) : p[i] = 1)

\* f >= g on positive float64 values.
AtLeast(f, g) ==
    \/ f.exp > g.exp
    \/ /\ f.exp = g.exp
       /\ \/ f.bits = g.bits
          \/ \E i \in 1..Precision :
                /\ f.bits[i] > g.bits[i]
                /\ \A j \in 1..(i - 1) : f.bits[j] = g.bits[j]

\* 95.0 = 1.011111 (binary) * 2^6.
NinetyFive == Float(6, [i \in 1..Precision |-> IF i \in {1, 3, 4, 5, 6, 7} THEN 1 ELSE 0])

(***************************************************************************)
(* CompletenessCheck (analysis/quality/checks.py), on a pandas table.      *)
(*                                                                         *)
(* A table is its number of rows and, per column, the number of missing    *)
(* cells in it.                                                            *)
(***************************************************************************)
MaxRows == 10
MaxColumns == 2

QTable(rows, missing) == [type |-> "DataFrame", rows |-> rows, missing |-> missing]

RECURSIVE SumSeq(_)
SumSeq(q) == IF q = <<>> THEN 0 ELSE Head(q) + SumSeq(Tail(q))

\* CompletenessCheck.can_handle(data).
CompletenessCanHandle(data) ==
    data.category = "TABULAR" /\ data.data.type = "DataFrame"

\* The threshold is exclusive.
CompletenessStatusStrict(total_cells, total_missing) ==
    /\ total_cells # total_missing
    /\ LET overall == Times(TrueDivide(total_cells - total_missing, total_cells), 100)
       IN AtLeast(overall, NinetyFive) /\ overall # NinetyFive

\* overall_completeness >= 95.0, for
\* overall_completeness = ((total_cells - total_missing) / total_cells) * 100
\* and total_cells > 0; the product of 0.0 is 0.0.
CompletenessStatus(total_cells, total_missing) ==
    IF total_cells = total_missing THEN FALSE
    ELSE AtLeast(Times(TrueDivide(total_cells - total_missing, total_cells), 100), NinetyFive)

\* The QualityCheckResult that check returns.
CompletenessResult(df, status) ==
    [check_name |-> "completeness_check",
     category |-> "COMPLETENESS",
     status |-> status,
     details |-> [total_rows |-> df.rows,
                  total_columns |-> Len(df.missing),
                  total_cells |-> df.rows * Len(df.missing),
                  total_missing |-> SumSeq(df.missing),
                  column_stats |-> df.missing]]

\* CompletenessCheck.check(data): the ways the call can end.  With no cell
\* the quotient is 0 / 0: total_missing is the sum of an empty Series when
\* the table has no column, which is a float64 zero (the quotient is then
\* NaN and NaN >= 95.0 is false) or an int zero (ZeroDivisionError) with the
\* pandas version; with columns and no row it is an int64 zero and the
\* quotient is NaN.
CompletenessOutcomes(data) ==
    IF ~CompletenessCanHandle(data)
    THEN {[kind |-> "ValueError", msg |-> "Data must be tabular (DataFrame or Series)"]}
    ELSE LET df == data.data
             total_cells == df.rows * Len(df.missing)
             total_missing == SumSeq(df.missing)
         IN IF total_cells = 0
            THEN {[kind |-> "returned", result |-> CompletenessResult(df, FALSE)]}
                 \cup (IF Len(df.missing) = 0
                       THEN {[kind |-> "ZeroDivisionError", msg |-> "division by zero"]}
                       ELSE {})
            ELSE {[kind |-> "returned",
                   result |-> CompletenessResult(df,
                                 CompletenessStatus(total_cells, total_missing))]}

\* The tables: up to MaxRows rows and MaxColumns columns, and in each column
\* any number of missing cells.
MissingCounts(rows) ==
    UNION {[1..n -> 0..rows] : n \in 0..MaxColumns}
QTables ==
    UNION {{QTable(rows, missing) : missing \in MissingCounts(rows)} : rows \in 0..MaxRows}

(***************************************************************************)
(* PandasDfTransformer (transformers/pandas_transformer.py).               *)
(*                                                                         *)
(* A table has one row, so a column is one cell: a value and a dtype.  An  *)
(* options map is cut down to the two keys that decide how a conversion    *)
(* ends: "errors" and "dtype" ("absent" when the key is not given).        *)
(***************************************************************************)
MaxSpecs == 1

ColumnNames == {"a", "b"}
Targets == {"text", "datetime", "numeric", "categorical", "boolean"}
ErrorsOptions == {"absent", "coerce", "raise", "ignore"}
DtypeOptions == {"absent", "float64"}
Options == [errors : ErrorsOptions, dtype : DtypeOptions]

Cell(v, d) == [val |-> v, dtype |-> d]
\* The cells a loaded table holds: an integer, a date string, a boolean
\* literal, a string that is none of these, and the missing marker.
InputCells == {Cell("7", "int64"), Cell("2020-01-01", "object"), Cell("yes", "object"),
               Cell("abc", "object"), Cell("NaN", "float64")}
NonNumericStrings ==
    {Cell("2020-01-01", "object"), Cell("yes", "object"), Cell("abc", "object"),
     Cell("Hello, World!", "object"), Cell("hello world", "object")}

DataFrame(cols) == [type |-> "DataFrame", cols |-> cols]
NotADataFrame == [type |-> "str", cols |-> EmptyDict]

\* The tables: no column, column a alone, columns a and b.
Tables ==
    {DataFrame(EmptyDict)}
    \cup {DataFrame([c \in {"a"} |-> x]) : x \in InputCells}
    \cup {DataFrame([c \in {"a", "b"} |-> IF c = "a" THEN x ELSE Cell("abc", "object")]) :
            x \in {Cell("7", "int64"), Cell("abc", "object")}}

\* The containers the tests build: an empty metadata dict, no source path.
DfContainers ==
    {DataContainer(d, EmptyDict, "TABULAR", None) : d \in Tables \cup {NotADataFrame}}
    \cup {DataContainer(NotADataFrame, EmptyDict, "TEXT", None)}

Ok(cell) == [ok |-> TRUE, cell |-> cell]
Raises(exc) == [ok |-> FALSE, exc |-> exc]

\* Strings that spell a number, as str() of an integer or a float gives them,
\* and the number each one parses to.
NumericStrings == {Cell("7", "object"), Cell("7.0", "object")}
ParsedNumber(cell) == IF cell.val = "7.0" THEN Cell("7", "float64") ELSE Cell("7", "int64")

\* pandas.to_numeric(series, **opts).
ToNumeric(cell, opts) ==
    IF opts.dtype # "absent" THEN Raises("TypeError")
    ELSE IF cell \in NumericStrings THEN Ok(ParsedNumber(cell))
    ELSE IF cell \notin NonNumericStrings THEN Ok(cell)
    ELSE CASE opts.errors = "coerce" -> Ok(Cell("NaN", "float64"))
           [] opts.errors = "ignore" -> Ok(cell)
           [] OTHER -> Raises("ValueError")

\* pandas.to_datetime(series, **opts).
ToDatetime(cell, opts) ==
    IF opts.dtype # "absent" THEN Raises("TypeError")
    ELSE IF cell.val \in {"7", "2020-01-01"} THEN Ok(Cell(cell.val, "datetime64[ns]"))
    ELSE IF cell.val = "NaN" THEN Ok(Cell("NaT", "datetime64[ns]"))
    ELSE CASE opts.errors = "coerce" -> Ok(Cell("NaT", "datetime64[ns]"))
           [] opts.errors = "ignore" -> Ok(cell)
           [] OTHER -> Raises("ValueError")

\* Series.astype(dtype, errors=...): errors is "raise" (the default) or "ignore".
Astype(cell, dtype, errors) ==
    IF errors = "coerce" THEN Raises("ValueError")
    ELSE CASE dtype = "float64" ->
                IF cell \in NumericStrings THEN Ok(Cell(ParsedNumber(cell).val, "float64"))
                ELSE IF cell \notin NonNumericStrings THEN Ok(Cell(cell.val, "float64"))
                ELSE IF errors = "ignore" THEN Ok(cell) ELSE Raises("ValueError")
           [] dtype = "category" -> Ok(Cell(cell.val, "category"))
           [] dtype = "boolean" ->
                IF cell.val = "True" THEN Ok(Cell("True", "boolean"))
                ELSE IF cell.val = "NaN" THEN Ok(Cell("<NA>", "boolean"))
                ELSE IF errors = "ignore" THEN Ok(cell) ELSE Raises("TypeError")
           [] OTHER -> Raises("TypeError")

\* The steps of a conversion that the code runs in order; each returns the
\* table so far, or the error that ends the transform call.
Table(df) == [kind |-> "table", df |-> df]
RawError(exc, col) == [kind |-> "raw", exc |-> exc, column |-> col]
ConversionError(col, target) ==
    [kind |-> "ValueError", msg |-> "Error converting", column |-> col, target |-> target]

SetColumn(df, col, cell) == [df EXCEPT !.cols = DictSet(df.cols, col, cell)]

\* An options map is iterated in the order its keys were written: a, then b.
ColumnOrder == <<"a", "b">>
Items(columns) == SelectSeq(ColumnOrder, LAMBDA c : c \in Keys(columns))

\* opts = {"errors": "coerce", **options}.
WithCoerceDefault(options) ==
    [options EXCEPT !.errors = IF options.errors = "absent" THEN "coerce" ELSE options.errors]

\* errors as Series.astype sees it: its default is "raise".
AstypeErrors(options) == IF options.errors = "absent" THEN "raise" ELSE options.errors

\* df[col].str.lower().map(bool_map) with the default true and false values,
\* done only when the column's dtype is object.
BoolMap(cell) ==
    IF cell.dtype # "object" THEN cell
    ELSE IF cell.val = "yes" THEN Cell("True", "object") ELSE Cell("NaN", "object")

\* The pandas call a _convert_<target>_columns method makes for one column:
\*   text         df[col].astype(**options)
\*   datetime     pd.to_datetime(df[col], **opts)
\*   numeric      pd.to_numeric(df[col], **opts)
\*   categorical  df[col].astype("category", **options)
\*   boolean      df[col].astype("boolean", **bool_options), after the mapping
Conversion(target, cell, options) ==
    CASE target = "text" ->
            IF options.dtype = "absent" THEN Raises("TypeError")
            ELSE Astype(cell, options.dtype, AstypeErrors(options))
      [] target = "datetime" -> ToDatetime(cell, WithCoerceDefault(options))
      [] target = "numeric" -> ToNumeric(cell, WithCoerceDefault(options))
      [] target = "categorical" ->
            IF options.dtype # "absent" THEN Raises("TypeError")
            ELSE Astype(cell, "category", AstypeErrors(options))
      [] OTHER ->
            IF options.dtype # "absent" THEN Raises("TypeError")
            ELSE Astype(BoolMap(cell), "boolean", AstypeErrors(options))

\* _convert_text_columns for one column: no try/except.
ConvertTextColumn(df, col, options) ==
    LET r == Conversion("text", df.cols[col], options)
    IN IF r.ok THEN Table(SetColumn(df, col, r.cell)) ELSE RawError(r.exc, col)

\* The try/except of _convert_datetime_columns for one column.
ConvertDatetimeColumn(df, col, options) ==
    LET r == Conversion("datetime", df.cols[col], options)
    IN IF r.ok THEN Table(SetColumn(df, col, r.cell))
       ELSE IF WithCoerceDefault(options).errors = "raise" THEN ConversionError(col, "datetime")
       ELSE Table(df)

\* The try/except of _convert_numeric_columns for one column.
ConvertNumericColumn(df, col, options) ==
    LET r == Conversion("numeric", df.cols[col], options)
    IN IF r.ok THEN Table(SetColumn(df, col, r.cell))
       ELSE IF WithCoerceDefault(options).errors = "raise" THEN ConversionError(col, "numeric")
       ELSE Table(df)

\* _convert_categorical_columns for one column: no try/except.
ConvertCategoricalColumn(df, col, options) ==
    LET r == Conversion("categorical", df.cols[col], options)
    IN IF r.ok THEN Table(SetColumn(df, col, r.cell)) ELSE RawError(r.exc, col)

\* The try/except of _convert_boolean_columns for one column: the mapping is
\* assigned to the column before astype is called.
ConvertBooleanColumn(df, col, options) ==
    LET mapped == SetColumn(df, col, BoolMap(df.cols[col]))
        r == Conversion("boolean", df.cols[col], options)
    IN IF r.ok THEN Table(SetColumn(mapped, col, r.cell))
       ELSE IF options.errors = "raise" THEN ConversionError(col, "boolean")
       ELSE Table(mapped)

ConvertColumn(target, df, col, options) ==
    CASE target = "text" -> ConvertTextColumn(df, col, options)
      [] target = "datetime" -> ConvertDatetimeColumn(df, col, options)
      [] target = "numeric" -> ConvertNumericColumn(df, col, options)
      [] target = "categorical" -> ConvertCategoricalColumn(df, col, options)
      [] OTHER -> ConvertBooleanColumn(df, col, options)

\* The for loop of a _convert_<target>_columns method from the i-th item on.
RECURSIVE ConvertColumns(_, _, _, _)
ConvertColumns(target, step, columns, i) ==
    IF step.kind # "table" \/ i > Len(Items(columns)) THEN step
    ELSE LET col == Items(columns)[i]
         IN ConvertColumns(target, ConvertColumn(target, step.df, col, columns[col]),
                           columns, i + 1)

\* PandasDfTransformer._rename_columns: only the keys that are columns.
RenameColumns(self, df) ==
    LET valid_renames == {k \in Keys(self.rename_columns) : k \in Keys(df.cols)}
        newName(c) == IF c \in valid_renames THEN self.rename_columns[c] ELSE c
    IN [df EXCEPT !.cols = [n \in {newName(c) : c \in Keys(df.cols)} |->
                               df.cols[CHOOSE c \in Keys(df.cols) : newName(c) = n]]]

\* The columns can_transform looks for.
AllSpecifiedColumns(self) ==
    Keys(self.text_columns) \cup Keys(self.datetime_columns) \cup Keys(self.numeric_columns)
    \cup Keys(self.categorical_columns) \cup Keys(self.boolean_columns)

\* can_transform returns False where it should raise.
CanTransformLenient(self, data_container) ==
    [kind |-> "returned",
     value |-> /\ data_container.category = "TABULAR"
               /\ data_container.data.type = "DataFrame"
               /\ (Keys(self.text_columns) \cup Keys(self.datetime_columns)
                     \cup Keys(self.numeric_columns) \cup Keys(self.categorical_columns)
                     \cup Keys(self.boolean_columns)) \subseteq Keys(data_container.data.cols)]

\* PandasDfTransformer.can_transform(data_container).
DfCanTransform(self, data_container) ==
    IF data_container.category # "TABULAR" THEN [kind |-> "returned", value |-> FALSE]
    ELSE IF data_container.data.type # "DataFrame"
         THEN [kind |-> "ValueError", msg |-> "Data must be a pandas DataFrame", columns |-> {}]
    ELSE IF ~(AllSpecifiedColumns(self) \subseteq Keys(data_container.data.cols))
         THEN [kind |-> "ValueError", msg |-> "not found in DataFrame",
               columns |-> AllSpecifiedColumns(self) \ Keys(data_container.data.cols)]
    ELSE [kind |-> "returned", value |-> TRUE]

\* The record transform appends to the history: the processor's name and the
\* six option maps echoed back.
Changes(self) == [processor |-> "pandas_df_transformer", transformations |-> self]

\* metadata.get(key, []).
GetList(metadata, key) == IF key \in Keys(metadata) THEN metadata[key] ELSE <<>>

\* df.dtypes.astype(str).to_dict().
ColumnDtypes(df) == [c \in Keys(df.cols) |-> df.cols[c].dtype]

\* The history starts afresh with every transform.
NewMetadataFresh(self, metadata, df) ==
    DictSet(DictSet(metadata, "type_conversion_history", <<Changes(self)>>),
            "column_dtypes", ColumnDtypes(df))

\* The metadata of the container transform returns: a copy of the input's
\* metadata with the history extended and the dtype map set.
NewMetadata(self, metadata, df) ==
    DictSet(DictSet(metadata, "type_conversion_history",
                    Append(GetList(metadata, "type_conversion_history"), Changes(self))),
            "column_dtypes", ColumnDtypes(df))

\* PandasDfTransformer.transform(data_container).
DfTransform(self, data_container) ==
    LET can == DfCanTransform(self, data_container)
    IN IF can.kind # "returned" THEN can
       ELSE IF ~can.value
            THEN [kind |-> "ValueError",
                  msg |-> "Data must be a pandas DataFrame with the specified columns",
                  columns |-> {}]
       ELSE LET t0 == Table(data_container.data)
                t1 == ConvertColumns("text", t0, self.text_columns, 1)
                t2 == ConvertColumns("datetime", t1, self.datetime_columns, 1)
                t3 == ConvertColumns("numeric", t2, self.numeric_columns, 1)
                t4 == ConvertColumns("categorical", t3, self.categorical_columns, 1)
                t5 == ConvertColumns("boolean", t4, self.boolean_columns, 1)
            IN IF t5.kind # "table" THEN t5
               ELSE LET df == RenameColumns(self, t5.df)
                    IN [kind |-> "returned",
                        container |->
                            DataContainer(df, NewMetadata(self, data_container.metadata, df),
                                          data_container.category,
                                          data_container.source_path)]

\* The transformers: at most MaxSpecs column specifications over the five
\* typed maps, and a rename map.
SpecEntries == [target : Targets, col : ColumnNames, options : Options]
RECURSIVE SetsUpTo(_, _)
SetsUpTo(S, n) ==
    IF n = 0 THEN {{}}
    ELSE SetsUpTo(S, n - 1) \cup {T \cup {x} : T \in SetsUpTo(S, n - 1), x \in S}
EntrySets ==
    {E \in SetsUpTo(SpecEntries, MaxSpecs) :
        \A e1, e2 \in E : (e1.target = e2.target /\ e1.col = e2.col) => e1 = e2}
ColumnsOf(E, target) ==
    [c \in {e.col : e \in {x \in E : x.target = target}} |->
        (CHOOSE e \in E : e.target = target /\ e.col = c).options]
RenameMaps ==
    {[c \in K |-> IF c = "a" THEN "a_new" ELSE "b_new"] : K \in {{}, {"a"}, {"b"}}}

\* PandasDfTransformer.__init__.
NewTransformer(E, renames) ==
    [text_columns |-> ColumnsOf(E, "text"),
     datetime_columns |-> ColumnsOf(E, "datetime"),
     numeric_columns |-> ColumnsOf(E, "numeric"),
     categorical_columns |-> ColumnsOf(E, "categorical"),
     boolean_columns |-> ColumnsOf(E, "boolean"),
     rename_columns |-> renames]

DfInit ==
    /\ \E E \in EntrySets, renames \in RenameMaps : transformer = NewTransformer(E, renames)
    /\ dfCall = NoCall

can_transform(data_container) ==
    /\ dfCall' = [op |-> "can_transform", input |-> data_container,
                  outcome |-> DfCanTransform(transformer, data_container)]
    /\ UNCHANGED <<transformer, containerVars, pluginVars, pipelineVars, qualityVars, stepVars, edaVars, storageVars, managerVars, contextVars, orchestratorVars>>

transform(data_container) ==
    /\ dfCall' = [op |-> "transform", input |-> data_container,
                  outcome |-> DfTransform(transformer, data_container)]
    /\ UNCHANGED <<transformer, containerVars, pluginVars, pipelineVars, qualityVars, stepVars, edaVars, storageVars, managerVars, contextVars, orchestratorVars>>

(***************************************************************************)
(* TextCleaner (transforms/cleaner.py).                                    *)
(*                                                                         *)
(* The module names the container class DataInfo; it is built from the     *)
(* same four fields as DataContainer.  self.columns is None or a list, so  *)
(* it is kept as a record that tells the two apart.                        *)
(***************************************************************************)
NoColumns == [is_none |-> TRUE, list |-> <<>>]
ColumnList(l) == [is_none |-> FALSE, list |-> l]

\* TextCleaner.__init__(columns).
TextCleaner(columns) == [name |-> "text_cleaner", columns |-> columns]

\* "if self.columns": None and the empty list are both false.
Truthy(columns) == ~columns.is_none /\ Len(columns.list) > 0

\* The categories TextCleaner supports, out of DataCategory's five.
SupportedCategories == {"TABULAR", "TEXT", "MIXED"}

\* A str payload, and a payload that is neither text nor a table.
StrData(s) == [type |-> "str", text |-> s]
IntData == [type |-> "int"]

\* str(text) for a cell that is not missing.
StrOf(cell) ==
    CASE cell.dtype = "float64" /\ cell.val = "7" -> "7.0"
      [] cell.dtype = "boolean" /\ cell.val = "True" -> "True"
      [] OTHER -> cell.val

\* The lowercasing and the three regular expressions of _clean_text.
CleanString(s) ==
    CASE s = "Hello, World!" -> "hello world"
      [] s = "True" -> "true"
      [] s = "2020-01-01" -> "20200101"
      [] OTHER -> s

\* TextCleaner._clean_text on a value of a column: a missing value is
\* returned as it is, anything else becomes a cleaned string.
CleanText(cell) ==
    IF cell.val \in {"NaN", "NaT", "<NA>"} THEN cell
    ELSE Cell(CleanString(StrOf(cell)),
              IF cell.dtype = "category" THEN "category" ELSE "object")

\* The order of a table's columns; renaming keeps a column's position.
FrameOrder == <<"a", "a_new", "b", "b_new">>

\* df.select_dtypes(include=["object"]).columns.
ObjectColumns(df) ==
    SelectSeq(FrameOrder, LAMBDA c : c \in Keys(df.cols) /\ df.cols[c].dtype = "object")

\* TextCleaner.can_transform(data_info).
CleanerCanTransform(self, data_info) ==
    IF data_info.category \notin SupportedCategories THEN FALSE
    ELSE IF data_info.data.type = "str" THEN TRUE
    ELSE IF data_info.data.type = "DataFrame"
         THEN IF Truthy(self.columns)
              THEN \E i \in Indices(self.columns.list) :
                      self.columns.list[i] \in Keys(data_info.data.cols)
              ELSE Len(ObjectColumns(data_info.data)) > 0
    ELSE FALSE

\* TextCleaner._get_target_columns(df).
GetTargetColumns(self, df) ==
    IF Truthy(self.columns)
    THEN SelectSeq(self.columns.list, LAMBDA col : col \in Keys(df.cols))
    ELSE ObjectColumns(df)

\* The value of "columns_processed": the string "all" or the list of columns.
AllColumns == [all |-> TRUE, list |-> <<>>]
Processed(target_columns) == [all |-> FALSE, list |-> target_columns]

\* The metadata of the container TextCleaner.transform returns.
CleanerMetadata(self, metadata, target_columns) ==
    DictSet(metadata, "cleaning_history",
            Append(GetList(metadata, "cleaning_history"),
                   [processor |-> self.name, columns_processed |-> target_columns]))

\* TextCleaner.transform(data_info).
CleanerTransform(self, data_info) ==
    IF ~CleanerCanTransform(self, data_info)
    THEN [kind |-> "ValueError", msg |-> "Cannot transform data of type"]
    ELSE IF data_info.data.type = "str"
         THEN [kind |-> "returned",
               container |->
                   DataContainer(StrData(CleanString(data_info.data.text)),
                                 CleanerMetadata(self, data_info.metadata, AllColumns),
                                 data_info.category, data_info.source_path)]
    ELSE LET data == data_info.data
             target_columns == GetTargetColumns(self, data)
             cleaned_data ==
                 [data EXCEPT !.cols =
                     [c \in Keys(data.cols) |->
                         IF c \in Range(target_columns) THEN CleanText(data.cols[c])
                         ELSE data.cols[c]]]
         IN [kind |-> "returned",
             container |->
                 DataContainer(cleaned_data,
                               CleanerMetadata(self, data_info.metadata,
                                               Processed(target_columns)),
                               data_info.category, data_info.source_path)]

(***************************************************************************)
(* QualityManager.run_check and run_all_checks (analysis/quality/          *)
(* manager.py).  The report's timestamp is left out.                       *)
(***************************************************************************)

\* check.can_handle(data): the built-in wants a table, a test's check takes
\* anything.
CanHandle(check, data) ==
    IF check.kind = "completeness" THEN CompletenessCanHandle(data) ELSE TRUE

\* The ways check.check(data) can end.
CheckOutcomes(check, data) ==
    CASE check.kind = "completeness" -> CompletenessOutcomes(data)
      [] check.kind = "passing" ->
            {[kind |-> "returned",
              result |-> [check_name |-> check.name, category |-> "ACCURACY",
                          status |-> TRUE, details |-> EmptyDict]]}
      [] OTHER -> {[kind |-> "RuntimeError", msg |-> "check failed"]}

QualityReport(data, results, metadata) ==
    [data_info |-> data, checks_performed |-> results, metadata |-> metadata]

\* An unknown name gives a report without results.
RunCheckLenient(chks, data, check_name) ==
    IF check_name \notin Keys(chks)
    THEN {[kind |-> "returned",
           report |-> QualityReport(data, <<>>, [check_name |-> check_name,
                                                 data_category |-> data.category])]}
    ELSE IF ~CanHandle(chks[check_name], data)
         THEN {[kind |-> "ValueError", msg |-> "cannot handle this data type"]}
    ELSE {IF o.kind = "returned"
          THEN [kind |-> "returned",
                report |-> QualityReport(data, <<o.result>>,
                                         [check_name |-> check_name,
                                          data_category |-> data.category])]
          ELSE o : o \in CheckOutcomes(chks[check_name], data)}

\* QualityManager.run_check(data, check_name): the ways the call can end.
RunCheckOutcomes(chks, data, check_name) ==
    IF check_name \notin Keys(chks)
    THEN {[kind |-> "ValueError", msg |-> "not found"]}
    ELSE IF ~CanHandle(chks[check_name], data)
         THEN {[kind |-> "ValueError", msg |-> "cannot handle this data type"]}
    ELSE {IF o.kind = "returned"
          THEN [kind |-> "returned",
                report |-> QualityReport(data, <<o.result>>,
                                         [check_name |-> check_name,
                                          data_category |-> data.category])]
          ELSE o : o \in CheckOutcomes(chks[check_name], data)}

\* The loop stops at the first check that raises.
RECURSIVE RunAllAborting(_, _, _, _)
RunAllAborting(chks, order, data, i) ==
    IF i > Len(order) THEN {[results |-> <<>>, logged |-> {}]}
    ELSE LET check == chks[order[i]]
             rest == RunAllAborting(chks, order, data, i + 1)
         IN IF ~CanHandle(check, data) THEN rest
            ELSE {IF o.kind = "returned"
                  THEN [results |-> <<o.result>> \o t.results, logged |-> t.logged]
                  ELSE [results |-> <<>>, logged |-> {check.name}] :
                     o \in CheckOutcomes(check, data), t \in rest}

\* The loop of run_all_checks from the i-th registered check on: the results
\* it collects and the names of the checks whose error it prints.
RECURSIVE RunAllFrom(_, _, _, _)
RunAllFrom(chks, order, data, i) ==
    IF i > Len(order) THEN {[results |-> <<>>, logged |-> {}]}
    ELSE LET check == chks[order[i]]
             rest == RunAllFrom(chks, order, data, i + 1)
         IN IF ~CanHandle(check, data) THEN rest
            ELSE {IF o.kind = "returned"
                  THEN [results |-> <<o.result>> \o t.results, logged |-> t.logged]
                  ELSE [results |-> t.results, logged |-> t.logged \cup {check.name}] :
                     o \in CheckOutcomes(check, data), t \in rest}

\* The containers handed to the manager: a text, a table without cells, a
\* complete table, a table below the threshold, and a tabular container
\* whose payload is a string.
QContainers ==
    {DataContainer(StrData("Hello, World!"), EmptyDict, "TEXT", None),
     DataContainer(StrData("Hello, World!"), EmptyDict, "TABULAR", None)}
    \cup {DataContainer(t, EmptyDict, "TABULAR", None) :
            t \in {QTable(0, <<>>), QTable(1, <<0>>), QTable(MaxRows, <<1>>)}}

CheckNames == {"completeness_check", "custom_check", "range_check", "non_existent_check"}

run_check(data, check_name) ==
    /\ \E o \in RunCheckOutcomes(checks, data, check_name) :
          checkCall' = [op |-> "run_check", data |-> data, check_name |-> check_name,
                        before |-> checks, outcome |-> o]
    /\ UNCHANGED <<checks, checkOrder, subject, containerVars, pluginVars, pipelineVars, dfVars, stepVars, edaVars, storageVars, managerVars, contextVars, orchestratorVars>>

run_all_checks(data) ==
    /\ \E t \in RunAllFrom(checks, checkOrder, data, 1) :
          checkCall' = [op |-> "run_all_checks", data |-> data,
                        before |-> checks, order |-> checkOrder, logged |-> t.logged,
                        outcome |->
                            [kind |-> "returned",
                             report |-> QualityReport(data, t.results,
                                            [total_checks |-> Len(t.results),
                                             data_category |-> data.category])]]
    /\ UNCHANGED <<checks, checkOrder, subject, containerVars, pluginVars, pipelineVars, dfVars, stepVars, edaVars, storageVars, managerVars, contextVars, orchestratorVars>>

\* CompletenessCheck.check(data), called on its own with the container
\* under check.
completeness_check ==
    /\ \E o \in CompletenessOutcomes(subject) :
          checkCall' = [op |-> "check", data |-> subject, outcome |-> o]
    /\ UNCHANGED <<checks, checkOrder, subject, containerVars, pluginVars, pipelineVars, dfVars, stepVars, edaVars, storageVars, managerVars, contextVars, orchestratorVars>>

\* The containers CompletenessCheck.check is called with.
CompletenessContainers ==
    {DataContainer(t, EmptyDict, "TABULAR", None) : t \in QTables}
    \cup {DataContainer(StrData("Hello, World!"), EmptyDict, "TEXT", None)}

SubjectInit == subject \in CompletenessContainers
SubjectIdle == subject = DataContainer(StrData("Hello, World!"), EmptyDict, "TEXT", None)

(***************************************************************************)
(* EDAManager (analysis/eda/manager.py) with the dataclasses of            *)
(* analysis/eda/interfaces.py.                                             *)
(***************************************************************************)

\* The analyzer classes: the built-in UnivariateAnalyzer and the analyzers a
\* caller writes, one that returns a result, one that raises, one for texts
\* and one that declares the built-in's name.
UnivariateAnalyzer ==
    [id |-> 0, name |-> "univariate_analyzer", analysis_type |-> "UNIVARIATE",
     supported_categories |-> {"TABULAR"}, kind |-> "univariate"]
AnalyzerClasses ==
    {UnivariateAnalyzer,
     [id |-> 1, name |-> "pair_analyzer", analysis_type |-> "BIVARIATE",
      supported_categories |-> {"TABULAR"}, kind |-> "returning"],
     [id |-> 2, name |-> "failing_analyzer", analysis_type |-> "UNIVARIATE",
      supported_categories |-> {"TABULAR", "TEXT"}, kind |-> "raising"],
     [id |-> 3, name |-> "univariate_analyzer", analysis_type |-> "UNIVARIATE",
      supported_categories |-> {"TEXT"}, kind |-> "returning"]}

\* The fields of the dataclasses, which are the keywords their constructors
\* take.
AnalysisResultFields ==
    {"analysis_name", "analysis_type", "data_container", "statistics",
     "visualizations", "insights", "metadata"}
EDAReportFields == {"data_container", "quality_report", "analyses", "timestamp", "metadata"}

\* A dataclass constructor called with keywords: a keyword that is not a
\* field is a TypeError.
Construct_dataclass(fields, kwargs) ==
    IF Keys(kwargs) \subseteq fields
    THEN [kind |-> "returned", value |-> kwargs]
    ELSE [kind |-> "TypeError", msg |-> "got an unexpected keyword argument",
          keywords |-> Keys(kwargs) \ fields]

\* DataAnalyzer.can_analyze(data).
CanAnalyze(analyzer, data) == data.category \in analyzer.supported_categories

\* analyzer.analyze(data, quality_report).
Analyze(analyzer, data) ==
    CASE analyzer.kind = "univariate" ->
            IF data.data.type # "DataFrame"
            THEN [kind |-> "ValueError", msg |-> "Data must be a pandas DataFrame"]
            ELSE Construct_dataclass(AnalysisResultFields,
                     [analysis_name |-> analyzer.name,
                      analysis_type |-> analyzer.analysis_type,
                      data_info |-> data])
      [] analyzer.kind = "returning" ->
            Construct_dataclass(AnalysisResultFields,
                [analysis_name |-> analyzer.name,
                 analysis_type |-> analyzer.analysis_type,
                 data_container |-> data])
      [] OTHER -> [kind |-> "RuntimeError", msg |-> "analysis failed"]

\* EDAManager.get_compatible_analyzers(data), as names in dict order.
CompatibleAnalyzers(reg, order, data) ==
    SelectSeq(order, LAMBDA n : CanAnalyze(reg[n], data))

\* The try/except loop of analyze from the i-th compatible analyzer on: the
\* results it collects and the names of the analyzers whose error it logs.
RECURSIVE AnalyzeFrom(_, _, _, _)
AnalyzeFrom(reg, names, data, i) ==
    IF i > Len(names) THEN [results |-> <<>>, logged |-> {}]
    ELSE LET r == Analyze(reg[names[i]], data)
             rest == AnalyzeFrom(reg, names, data, i + 1)
         IN IF r.kind = "returned"
            THEN [results |-> <<r.value>> \o rest.results, logged |-> rest.logged]
            ELSE [results |-> rest.results, logged |-> rest.logged \cup {names[i]}]

\* EDAManager.analyze(data, None, analysis_types, analyzer_names): an empty
\* list stands for None as well, both are false to "if analysis_types".
AnalyzeResult(reg, order, data, analysis_types, analyzer_names) ==
    LET compatible == CompatibleAnalyzers(reg, order, data)
        of_type == IF analysis_types # <<>>
                   THEN SelectSeq(compatible,
                                  LAMBDA n : reg[n].analysis_type \in Range(analysis_types))
                   ELSE compatible
        named == IF analyzer_names # <<>>
                 THEN SelectSeq(of_type, LAMBDA n : n \in Range(analyzer_names))
                 ELSE of_type
        run == AnalyzeFrom(reg, named, data, 1)
        report == IF named = <<>>
                  THEN Construct_dataclass(EDAReportFields,
                           [data_info |-> data, quality_report |-> None,
                            analyses |-> <<>>, timestamp |-> "now",
                            metadata |-> [status |-> "No compatible analyzers found"]])
                  ELSE Construct_dataclass(EDAReportFields,
                           [data_info |-> data, quality_report |-> None,
                            analyses |-> run.results, timestamp |-> "now",
                            metadata |-> [total_analyzers |-> Len(named),
                                          successful_analyses |-> Len(run.results)]])
    IN [selected |-> named,
        results |-> IF named = <<>> THEN <<>> ELSE run.results,
        logged |-> IF named = <<>> THEN {} ELSE run.logged,
        outcome |-> report]

EDAInit ==
    /\ analyzers = EmptyDict
    /\ analyzerOrder = <<>>
    /\ edaCall = NoCall

\* EDAManager.register_analyzer(analyzer): the instance is stored under its
\* name, whatever was stored there before; a key that is overwritten keeps
\* its place in the dict.
register_analyzer(analyzer) ==
    /\ analyzers' = DictSet(analyzers, analyzer.name, analyzer)
    /\ analyzerOrder' = IF analyzer.name \in Keys(analyzers) THEN analyzerOrder
                        ELSE Append(analyzerOrder, analyzer.name)
    /\ edaCall' = [op |-> "register_analyzer", analyzer |-> analyzer,
                   before |-> analyzers, outcome |-> [kind |-> "returned"]]
    /\ UNCHANGED <<containerVars, pluginVars, pipelineVars, qualityVars, dfVars, stepVars, storageVars, managerVars, contextVars, orchestratorVars>>

\* The containers and the filters analyze is called with.
EDAContainers ==
    {DataContainer(QTable(1, <<0>>), EmptyDict, "TABULAR", None),
     DataContainer(StrData("Hello, World!"), EmptyDict, "TEXT", None)}
TypeFilters == {<<>>, <<"UNIVARIATE">>, <<"BIVARIATE">>}
NameFilters == {<<>>, <<"pair_analyzer">>, <<"univariate_analyzer", "failing_analyzer">>}

analyze(data, analysis_types, analyzer_names) ==
    LET r == AnalyzeResult(analyzers, analyzerOrder, data, analysis_types, analyzer_names)
    IN /\ edaCall' = [op |-> "analyze", data |-> data, analysis_types |-> analysis_types,
                      analyzer_names |-> analyzer_names, before |-> analyzers,
                      order |-> analyzerOrder, selected |-> r.selected,
                      results |-> r.results, logged |-> r.logged, outcome |-> r.outcome]
       /\ UNCHANGED <<analyzers, analyzerOrder, containerVars, pluginVars, pipelineVars,
                      qualityVars, dfVars, stepVars, storageVars, managerVars, contextVars, orchestratorVars>>

(***************************************************************************)
(* A chain of transforms: a caller passes the container one transform      *)
(* returned to the next transform, as PipelineManager.execute does.        *)
(***************************************************************************)
MaxTransforms == 2

\* The transformers of the chain: one that converts nothing, one per kind of
\* conversion that these tables survive, and one that only renames.
StepTransformers ==
    {NewTransformer({}, EmptyDict),
     NewTransformer({[target |-> "numeric", col |-> "a",
                      options |-> [errors |-> "absent", dtype |-> "absent"]]}, EmptyDict),
     NewTransformer({[target |-> "boolean", col |-> "b",
                      options |-> [errors |-> "absent", dtype |-> "absent"]]}, EmptyDict),
     NewTransformer({}, [c \in {"a"} |-> "a_new"])}

\* The cleaners: no column list, an empty one, and one naming a or b.
StepCleaners ==
    {TextCleaner(NoColumns), TextCleaner(ColumnList(<<>>)),
     TextCleaner(ColumnList(<<"a">>)), TextCleaner(ColumnList(<<"b">>))}

\* What a loader hands over: a table or a text, with the loader's metadata
\* (none, or the tag of the implementation) and the path it read.
StepTables ==
    {DataFrame([c \in {"a"} |-> x]) : x \in {Cell("7", "int64"), Cell("Hello, World!", "object")}}
    \cup {DataFrame([c \in {"a", "b"} |-> IF c = "a" THEN x ELSE Cell("Hello, World!", "object")]) :
            x \in {Cell("7", "int64"), Cell("Hello, World!", "object")}}
LoaderMetadata == {EmptyDict, [k \in {"implementation"} |-> "pandas"]}
StepContainers ==
    {DataContainer(d, m, "TABULAR", "data.csv") : d \in StepTables, m \in LoaderMetadata}
    \cup {DataContainer(StrData("Hello, World!"), m, "TEXT", "data.txt") : m \in LoaderMetadata}
    \cup {DataContainer(IntData, EmptyDict, c, None) : c \in {"TABULAR", "IMAGE"}}

StepInit ==
    /\ current \in StepContainers
    /\ applied = <<>>
    /\ stepCall = NoCall

EDAIdle == EDAInit

StepIdle ==
    /\ current = DataContainer(IntData, EmptyDict, "IMAGE", None)
    /\ applied = <<>>
    /\ stepCall = NoCall

\* The working table is the input's own frame, so that what the conversions
\* assign to its columns is seen through the input container.
WrittenThroughInput(data_container, r) ==
    IF r.kind = "returned" THEN [data_container EXCEPT !.data = r.container.data]
    ELSE data_container

\* The input container as it is after transform.  Both transforms bind
\* their working table to data.copy() and their working metadata to
\* metadata.copy(); the conversions and the cleaning assign to columns of
\* the first, the history and the dtype map are assigned to keys of the
\* second, and the history is old + [changes], a new list.  No assignment
\* goes to an object the input refers to, whether or not a conversion
\* raises half-way.
InputAfterTransform(data_container, r) == data_container

\* What a step leaves behind: the call, the input as it was before and as it
\* is after, and the container it returned as the input of the next step (a
\* step that raises leaves the chain where it was).
AfterStep(processor, r) ==
    /\ stepCall' = [op |-> "transform", processor |-> processor,
                    input |-> current, after |-> InputAfterTransform(current, r),
                    outcome |-> r]
    /\ current' = IF r.kind = "returned" THEN r.container ELSE current
    /\ applied' = IF r.kind = "returned" THEN Append(applied, processor) ELSE applied

\* PandasDfTransformer.transform as a step of the chain.
transform_step(self) ==
    /\ Len(applied) < MaxTransforms
    /\ AfterStep([name |-> "pandas_df_transformer", self |-> self],
                 DfTransform(self, current))
    /\ UNCHANGED <<containerVars, pluginVars, pipelineVars, qualityVars, dfVars, edaVars, storageVars, managerVars, contextVars, orchestratorVars>>

\* TextCleaner.transform as a step of the chain.
clean_step(self) ==
    /\ Len(applied) < MaxTransforms
    /\ AfterStep([name |-> "text_cleaner", self |-> self], CleanerTransform(self, current))
    /\ UNCHANGED <<containerVars, pluginVars, pipelineVars, qualityVars, dfVars, edaVars, storageVars, managerVars, contextVars, orchestratorVars>>

(***************************************************************************)
(* DataStorage (storage.py): containers kept by category and name.         *)
(*                                                                         *)
(* The storage holds references: the same container object can be stored   *)
(* under several names, and update_metadata changes the object in place.   *)
(* objects maps the identity of every container the storage refers to onto *)
(* its present value; a slot of the storage holds an identity.  Only the   *)
(* equality of two references can be observed, so identities are kept      *)
(* numbered 1, 2, ... in the order of the first slot that holds them.      *)
(***************************************************************************)

\* class DataCategory(Enum): the members, in definition order.
DataCategory == <<"TABULAR", "TEXT", "DOCUMENT", "IMAGE", "MIXED">>

\* The names data is stored under by DataStorage's callers; process_file
\* also stores under None, the default of its name parameter.
StorageNames == {"raw", "clean"}
NameOrder == <<None, "clean", "raw">>

\* The containers a caller constructs and stores.
StorageContainers ==
    {DataContainer(1, [rows |-> "3"], "TABULAR", None),
     DataContainer(0, EmptyDict, "TEXT", None)}

\* The categories a caller passes, None included.
CategoryArguments == {None, "TABULAR", "TEXT"}

\* The metadata a caller passes to update_metadata.
MetadataUpdates == {[rows |-> "2"]}

\* dict.update(other): other's keys are added or overwritten.
DictUpdate(d, other) ==
    [k \in (DOMAIN d) \cup (DOMAIN other) |-> IF k \in DOMAIN other THEN other[k] ELSE d[k]]

\* del d[k].
DictDel(d, k) == [x \in (DOMAIN d) \ {k} |-> d[x]]

\* DataStorage.__init__: an empty dict for every category.
NewStorage == [category \in Range(DataCategory) |-> EmptyDict]

\* The null reference, the identities the storage refers to and the identity
\* a newly constructed container gets.
NoObject == 0
Referenced(st) == UNION {{st[category][name] : name \in Keys(st[category])} :
                           category \in Range(DataCategory)}
NewId(objs) == Cardinality(DOMAIN objs) + 1

\* The objects the storage refers to, in the order of the first slot that
\* holds them, counting the slots by category and then by name; the storage
\* and the objects with every object numbered by its place in that order,
\* the objects the storage does not refer to dropped.
RECURSIVE InSlotOrder(_, _, _)
InSlotOrder(st, m, seen) ==
    IF m > Len(DataCategory) * Len(NameOrder) THEN seen
    ELSE LET category == DataCategory[((m - 1) \div Len(NameOrder)) + 1]
             name == NameOrder[((m - 1) % Len(NameOrder)) + 1]
         IN IF name \in Keys(st[category]) /\ st[category][name] \notin Range(seen)
            THEN InSlotOrder(st, m + 1, Append(seen, st[category][name]))
            ELSE InSlotOrder(st, m + 1, seen)
Renumbered(st) ==
    LET order == InSlotOrder(st, 1, <<>>)
    IN [category \in Range(DataCategory) |->
           [name \in Keys(st[category]) |->
               CHOOSE n \in Indices(order) : order[n] = st[category][name]]]
Collect(objs, st) ==
    LET order == InSlotOrder(st, 1, <<>>)
    IN [n \in Indices(order) |-> objs[order[n]]]

\* The first category, in the order of self._storage, that holds the name;
\* 0 when none does.
FirstHolding(st, name) ==
    LET holding == {i \in Indices(DataCategory) : name \in Keys(st[DataCategory[i]])}
    IN IF holding = {} THEN 0 ELSE CHOOSE i \in holding : \A j \in holding : i <= j

\* DataStorage.store(name, data_info), data_info being the object id.
Store(st, name, id, category) == [st EXCEPT ![category] = DictSet(@, name, id)]

\* DataStorage.get(name, category): the object found, or NoObject for None.
Get(st, name, category) ==
    IF category # None
    THEN IF name \in Keys(st[category]) THEN st[category][name] ELSE NoObject
    ELSE IF FirstHolding(st, name) = 0 THEN NoObject
         ELSE st[DataCategory[FirstHolding(st, name)]][name]

\* DataStorage.delete(name, category): the storage afterwards and the value
\* returned.
Delete(st, name, category) ==
    IF category # None
    THEN IF name \in Keys(st[category])
         THEN [storage |-> [st EXCEPT ![category] = DictDel(@, name)], returned |-> TRUE]
         ELSE [storage |-> st, returned |-> FALSE]
    ELSE IF FirstHolding(st, name) = 0
         THEN [storage |-> st, returned |-> FALSE]
         ELSE [storage |-> [st EXCEPT ![DataCategory[FirstHolding(st, name)]] =
                                          DictDel(@, name)],
               returned |-> TRUE]

\* What a call returns when it returns a container or None.
Returned(objs, id) ==
    IF id = NoObject THEN [kind |-> "None"]
    ELSE [kind |-> "container", value |-> objs[id]]

StorageInit ==
    /\ storage = NewStorage
    /\ objects = EmptyDict
    /\ storageCall = NoCall

StorageIdle == StorageInit

\* store(name, data_info): data_info is the object id, whose value is
\* data_info; id is a new identity or that of a container already stored.
store(name, data_info, id) ==
    LET st == Store(storage, name, id, data_info.category)
    IN /\ storage' = Renumbered(st)
       /\ objects' = Collect(DictSet(objects, id, data_info), st)
       /\ storageCall' = [op |-> "store", name |-> name, category |-> None,
                          data_info |-> data_info, outcome |-> [kind |-> "None"]]
       /\ UNCHANGED <<containerVars, pluginVars, pipelineVars, qualityVars, dfVars, stepVars, edaVars, managerVars, contextVars, orchestratorVars>>

get(name, category) ==
    /\ storageCall' = [op |-> "get", name |-> name, category |-> category,
                       outcome |-> Returned(objects, Get(storage, name, category))]
    /\ UNCHANGED <<storage, objects>>
    /\ UNCHANGED <<containerVars, pluginVars, pipelineVars, qualityVars, dfVars, stepVars, edaVars, managerVars, contextVars, orchestratorVars>>

\* list(self._storage[category].keys()): the names, their order left out.
list_by_category(category) ==
    /\ storageCall' = [op |-> "list_by_category", name |-> None, category |-> category,
                       outcome |-> [kind |-> "list", value |-> Keys(storage[category])]]
    /\ UNCHANGED <<storage, objects>>
    /\ UNCHANGED <<containerVars, pluginVars, pipelineVars, qualityVars, dfVars, stepVars, edaVars, managerVars, contextVars, orchestratorVars>>

list_all ==
    /\ storageCall' = [op |-> "list_all", name |-> None, category |-> None,
                       outcome |-> [kind |-> "dict",
                                    value |-> [category \in Range(DataCategory) |->
                                                  Keys(storage[category])]]]
    /\ UNCHANGED <<storage, objects>>
    /\ UNCHANGED <<containerVars, pluginVars, pipelineVars, qualityVars, dfVars, stepVars, edaVars, managerVars, contextVars, orchestratorVars>>

delete(name, category) ==
    LET r == Delete(storage, name, category)
    IN /\ storage' = Renumbered(r.storage)
       /\ objects' = Collect(objects, r.storage)
       /\ storageCall' = [op |-> "delete", name |-> name, category |-> category,
                          before |-> storage,
                          outcome |-> [kind |-> "bool", value |-> r.returned]]
       /\ UNCHANGED <<containerVars, pluginVars, pipelineVars, qualityVars, dfVars, stepVars, edaVars, managerVars, contextVars, orchestratorVars>>

get_metadata(name, category) ==
    LET data_info == Get(storage, name, category)
    IN /\ storageCall' = [op |-> "get_metadata", name |-> name, category |-> category,
                          outcome |-> IF data_info # NoObject
                                      THEN [kind |-> "dict", value |-> objects[data_info].metadata]
                                      ELSE [kind |-> "None"]]
       /\ UNCHANGED <<storage, objects>>
       /\ UNCHANGED <<containerVars, pluginVars, pipelineVars, qualityVars, dfVars, stepVars, edaVars, managerVars, contextVars, orchestratorVars>>

update_metadata(name, metadata, category) ==
    LET data_info == Get(storage, name, category)
    IN /\ objects' = IF data_info # NoObject
                     THEN [objects EXCEPT ![data_info].metadata = DictUpdate(@, metadata)]
                     ELSE objects
       /\ storageCall' = [op |-> "update_metadata", name |-> name, category |-> category,
                          outcome |-> [kind |-> "bool", value |-> data_info # NoObject]]
       /\ UNCHANGED storage
       /\ UNCHANGED <<containerVars, pluginVars, pipelineVars, qualityVars, dfVars, stepVars, edaVars, managerVars, contextVars, orchestratorVars>>

(***************************************************************************)
(* DataProcessingManager (managers.py): load a file with a plugin, run it  *)
(* through a pipeline, store the result.                                   *)
(***************************************************************************)

\* A loader a caller registers for text files.
TextPlugin == [cls |-> "TextPlugin", name |-> "text_plugin",
               supported_extensions |-> <<".txt">>, priority |-> 1]

\* plugin_class.data_category.
DataCategoryOf(plugin_class) ==
    IF plugin_class.cls = "TextPlugin" THEN "TEXT" ELSE "TABULAR"

\* The files process_file is called with: what Path(file_path).suffix and
\* exists() give, and what a reader finds in the file (a table's payload, or
\* "malformed" for a file the CSV reader rejects).
ManagerFiles ==
    {[path |-> "table.mock", suffix |-> ".mock", exists |-> TRUE, content |-> 1],
     [path |-> "notes.txt", suffix |-> ".txt", exists |-> TRUE, content |-> 0],
     [path |-> "data.csv", suffix |-> ".csv", exists |-> TRUE, content |-> 0],
     [path |-> "missing.csv", suffix |-> ".csv", exists |-> FALSE, content |-> 0],
     [path |-> "data.json", suffix |-> ".json", exists |-> TRUE, content |-> 0]}

\* plugin.load(file_path): the CSV loaders read the file, the mock loaders
\* of the tests build a fixed table, the text loader a fixed text.
Load(plugin_class, file_path) ==
    IF plugin_class.cls \in {"PandasCSVPlugin", "PolarsCSVPlugin"}
    THEN IF ~file_path.exists
         THEN [kind |-> "FileNotFoundError", msg |-> "File not found"]
         ELSE [kind |-> "returned",
               value |-> DataContainer(file_path.content,
                                       [implementation |-> plugin_class.name],
                                       DataCategoryOf(plugin_class), None)]
    ELSE [kind |-> "returned",
          value |-> DataContainer(IF DataCategoryOf(plugin_class) = "TEXT" THEN 0 ELSE 1,
                                  [implementation |-> plugin_class.name],
                                  DataCategoryOf(plugin_class), None)]

\* What is left of process_file once the data is loaded; the container is
\* stored before the pipeline is looked up.
AfterLoadStoreFirst(procs, pipes, loaded, name, pipeline_name) ==
    LET data_info == IF name # None
                     THEN [loaded EXCEPT !.metadata = DictSet(@, "name", name)]
                     ELSE loaded
    IN IF pipeline_name # None
       THEN IF pipeline_name \notin Keys(pipes)
            THEN [outcome |-> [kind |-> "ValueError", msg |-> "Pipeline not found"],
                  stored |-> <<data_info>>]
            ELSE LET r == ExecuteSteps(data_info, pipes[pipeline_name], procs)
                 IN IF r.kind = "returned"
                    THEN [outcome |-> [kind |-> "returned", value |-> r.result],
                          stored |-> <<r.result>>]
                    ELSE [outcome |-> [kind |-> r.kind, msg |-> "pipeline step"],
                          stored |-> <<data_info>>]
       ELSE [outcome |-> [kind |-> "returned", value |-> data_info],
             stored |-> <<data_info>>]

\* What is left of process_file once the data is loaded: the name is put in
\* the metadata, the pipeline is looked up and executed, the result stored.
AfterLoad(procs, pipes, loaded, name, pipeline_name) ==
    LET data_info == IF name # None
                     THEN [loaded EXCEPT !.metadata = DictSet(@, "name", name)]
                     ELSE loaded
    IN IF pipeline_name # None
       THEN IF pipeline_name \notin Keys(pipes)
            THEN [outcome |-> [kind |-> "ValueError", msg |-> "Pipeline not found"],
                  stored |-> <<>>]
            ELSE LET r == ExecuteSteps(data_info, pipes[pipeline_name], procs)
                 IN IF r.kind = "returned"
                    THEN [outcome |-> [kind |-> "returned", value |-> r.result],
                          stored |-> <<r.result>>]
                    ELSE [outcome |-> [kind |-> r.kind, msg |-> "pipeline step"],
                          stored |-> <<>>]
       ELSE [outcome |-> [kind |-> "returned", value |-> data_info],
             stored |-> <<data_info>>]

\* DataProcessingManager.process_file(file_path, name, pipeline_name,
\* plugin_name): what the call raises or returns, and the container it
\* hands to data_storage.store (none when it raises before).
ProcessFileResult(plugs, procs, pipes, file_path, name, pipeline_name, plugin_name) ==
    LET plugin == GetPluginResult(plugs, file_path.suffix, plugin_name)
    IN IF plugin.kind = "None"
       THEN [outcome |-> [kind |-> "ValueError", msg |-> "No plugin found"], stored |-> <<>>]
       ELSE IF plugin.kind # "instance"
       THEN [outcome |-> [kind |-> plugin.kind, msg |-> plugin.msg], stored |-> <<>>]
       ELSE LET loaded == Load(plugin.cls, file_path)
            IN IF loaded.kind # "returned"
               THEN [outcome |-> loaded, stored |-> <<>>]
               ELSE AfterLoad(procs, pipes, loaded.value, name, pipeline_name)

\* A manager after set-up: the built-in CSV loaders, a mock loader and a
\* text loader registered, two processors registered and a pipeline
\* created from them; nothing stored yet.
ManagerInit ==
    /\ plugins = RegisterExtensions(RegisterExtensions(LoadPlugins(TRUE), MockPlugin, 1),
                                    TextPlugin, 1)
    /\ pluginCall = NoCall
    /\ processors = [n \in {"mock_transform", "pandas_df_transformer"} |->
                        CHOOSE p \in Processors :
                            p.name = n /\ p.kind \in {"double", "strict"}]
    /\ pipelines = [n \in PipelineNames |-> <<"mock_transform", "pandas_df_transformer">>]
    /\ pipeCall = NoCall
    /\ StorageInit
    /\ managerCall = NoCall

ManagerIdle == managerCall = NoCall

process_file(file_path, name, pipeline_name, plugin_name) ==
    LET r == ProcessFileResult(plugins, processors, pipelines,
                               file_path, name, pipeline_name, plugin_name)
        id == NewId(objects)
        st == IF r.stored # <<>>
              THEN Store(storage, name, id, r.stored[1].category) ELSE storage
        objs == IF r.stored # <<>> THEN DictSet(objects, id, r.stored[1]) ELSE objects
    IN /\ storage' = Renumbered(st)
       /\ objects' = Collect(objs, st)
       /\ managerCall' = [op |-> "process_file", name |-> name,
                          before |-> [storage |-> storage, objects |-> objects],
                          outcome |-> r.outcome]
       /\ UNCHANGED <<storageCall, containerVars, pluginVars, pipelineVars, qualityVars, dfVars, stepVars, edaVars, contextVars, orchestratorVars>>

\* get_data(name, category) is data_storage.get(name, category).
get_data(name, category) ==
    /\ managerCall' = [op |-> "get_data", name |-> name, category |-> category,
                       outcome |-> Returned(objects, Get(storage, name, category))]
    /\ UNCHANGED <<storageVars, containerVars, pluginVars, pipelineVars, qualityVars, dfVars, stepVars, edaVars, contextVars, orchestratorVars>>

\* list_data(category): list_by_category(category), or list_all() for None.
list_data(category) ==
    /\ managerCall' = [op |-> "list_data", name |-> None, category |-> category,
                       outcome |-> IF category # None
                                   THEN [kind |-> "list", value |-> Keys(storage[category])]
                                   ELSE [kind |-> "dict",
                                         value |-> [c \in Range(DataCategory) |->
                                                       Keys(storage[c])]]]
    /\ UNCHANGED <<storageVars, containerVars, pluginVars, pipelineVars, qualityVars, dfVars, stepVars, edaVars, contextVars, orchestratorVars>>

(***************************************************************************)
(* DataContextManager: named analysis contexts with data, metadata and     *)
(* notes.  The repository has two implementations: context.py keeps plain  *)
(* Context dataclasses, managers.py keeps AnalysisContext objects (frozen  *)
(* DataContainer subclasses) and can load a context's data from a file     *)
(* through its DataProcessingManager.  impl says which one is running.     *)
(***************************************************************************)
MaxNotes == 1

Implementations == {"context", "managers"}
\* A context created from a file is stored under its name as well.
ContextNames == StorageNames
ContextData == {1, 2}
ContextMetadata == {EmptyDict, [description |-> "Test data"]}
Notes == {"Important observation"}

\* The files create_context of managers.py is given: one the mock loader
\* loads, one no loader is registered for.
ContextFiles == {f \in ManagerFiles : f.suffix \in {".mock", ".json"}}

\* context.py: Context(data=data, metadata=metadata, notes=notes).
Context(data, metadata, notes) ==
    [data |-> data, metadata |-> metadata, notes |-> notes]

\* interfaces.py: AnalysisContext(data=data, metadata=metadata, notes=None),
\* a DataContainer of category TABULAR whose notes default to [].
AnalysisContext(data, metadata, notes) ==
    [data |-> data, metadata |-> metadata, category |-> "TABULAR",
     source_path |-> None, notes |-> IF notes = None THEN <<>> ELSE notes]

\* update_context(name, data, metadata): assigns the two attributes of the
\* stored context; an AnalysisContext is frozen, so the first assignment
\* raises FrozenInstanceError.
UpdateContextResult(implementation, ctxs, name, data, metadata) ==
    IF name \notin Keys(ctxs)
    THEN [contexts |-> ctxs, outcome |-> [kind |-> "KeyError", name |-> name]]
    ELSE IF implementation = "managers"
    THEN [contexts |-> ctxs,
          outcome |-> [kind |-> "FrozenInstanceError", name |-> "data"]]
    ELSE [contexts |-> [ctxs EXCEPT ![name].data = data, ![name].metadata = metadata],
          outcome |-> [kind |-> "None"]]

\* The name is not looked up before the context is stored.
CreateWithoutLookup(implementation, ctxs, name, data, metadata) ==
    [contexts |-> DictSet(ctxs, name,
                          IF implementation = "context" THEN Context(data, metadata, <<>>)
                          ELSE AnalysisContext(data, metadata, None)),
     outcome |-> [kind |-> "None"]]

\* create_context once the data and the metadata are at hand: the lookup
\* of the name (made first in the code) and the construction.
CreateContextResult(implementation, ctxs, name, data, metadata) ==
    IF name \in Keys(ctxs)
    THEN [contexts |-> ctxs, outcome |-> [kind |-> "ValueError", name |-> name]]
    ELSE [contexts |-> DictSet(ctxs, name,
                               IF implementation = "context"
                               THEN Context(data, metadata, <<>>)
                               ELSE AnalysisContext(data, metadata, None)),
          outcome |-> [kind |-> "None"]]

\* The context stays where it is.
DeleteNothing(ctxs, name) ==
    IF name \notin Keys(ctxs)
    THEN [contexts |-> ctxs, outcome |-> [kind |-> "KeyError", name |-> name]]
    ELSE [contexts |-> ctxs, outcome |-> [kind |-> "None"]]

\* delete_context(name).
DeleteContextResult(ctxs, name) ==
    IF name \notin Keys(ctxs)
    THEN [contexts |-> ctxs, outcome |-> [kind |-> "KeyError", name |-> name]]
    ELSE [contexts |-> DictDel(ctxs, name), outcome |-> [kind |-> "None"]]

\* add_notes(name, note).
AddNotesResult(ctxs, name, note) ==
    IF name \notin Keys(ctxs)
    THEN [contexts |-> ctxs, outcome |-> [kind |-> "KeyError", name |-> name]]
    ELSE [contexts |-> [ctxs EXCEPT ![name].notes = Append(@, note)],
          outcome |-> [kind |-> "None"]]

ContextsInit ==
    /\ impl \in Implementations
    /\ contexts = EmptyDict
    /\ created = {}
    /\ ctxCall = NoCall

ContextsIdle ==
    /\ impl = "context"
    /\ contexts = EmptyDict
    /\ created = {}
    /\ ctxCall = NoCall

\* What every call leaves behind.
AfterContextCall(op, name, r) ==
    /\ contexts' = r.contexts
    /\ ctxCall' = [op |-> op, name |-> name, before |-> contexts, outcome |-> r.outcome]

\* create_context(name, data, metadata) of either implementation, with no
\* file_path.  The "metadata or {}" of managers.py turns an empty or absent
\* metadata into {}, which the empty dictionary given here stands for.
create_context(name, data, metadata) ==
    LET r == CreateContextResult(impl, contexts, name, data, metadata)
    IN /\ AfterContextCall("create_context", name, r)
       /\ created' = IF r.outcome.kind = "None" THEN created \cup {name} ELSE created
       /\ UNCHANGED <<impl, containerVars, pluginVars, pipelineVars, qualityVars, dfVars, stepVars, edaVars, storageVars, managerVars, orchestratorVars>>

\* create_context(name, file_path=file_path, pipeline_name=pipeline_name)
\* of managers.py: the data and the metadata are those of the container
\* process_file returns, which process_file has stored under the name.
create_context_from_file(name, file_path, pipeline_name) ==
    /\ impl = "managers"
    /\ LET p == ProcessFileResult(plugins, processors, pipelines,
                                  file_path, name, pipeline_name, None)
           loaded == name \notin Keys(contexts) /\ p.stored # <<>>
           id == NewId(objects)
           st == IF loaded THEN Store(storage, name, id, p.stored[1].category) ELSE storage
           objs == IF loaded THEN DictSet(objects, id, p.stored[1]) ELSE objects
           r == IF name \in Keys(contexts)
                THEN [contexts |-> contexts, outcome |-> [kind |-> "ValueError", name |-> name]]
                ELSE IF p.outcome.kind # "returned"
                THEN [contexts |-> contexts, outcome |-> p.outcome]
                ELSE CreateContextResult(impl, contexts, name, p.outcome.value.data,
                                         p.outcome.value.metadata)
       IN /\ AfterContextCall("create_context", name, r)
          /\ created' = IF r.outcome.kind = "None" THEN created \cup {name} ELSE created
          /\ storage' = Renumbered(st)
          /\ objects' = Collect(objs, st)
    /\ UNCHANGED <<impl, storageCall, containerVars, pluginVars, pipelineVars, qualityVars, dfVars, stepVars, edaVars, managerVars, orchestratorVars>>

get_context(name) ==
    /\ AfterContextCall("get_context", name,
                        [contexts |-> contexts,
                         outcome |-> IF name \notin Keys(contexts)
                                     THEN [kind |-> "KeyError", name |-> name]
                                     ELSE [kind |-> "context", value |-> contexts[name]]])
    /\ UNCHANGED <<impl, created, containerVars, pluginVars, pipelineVars, qualityVars, dfVars, stepVars, edaVars, storageVars, managerVars, orchestratorVars>>

update_context(name, data, metadata) ==
    /\ LET r == UpdateContextResult(impl, contexts, name, data, metadata)
       IN /\ contexts' = r.contexts
          /\ ctxCall' = [op |-> "update_context", name |-> name, data |-> data,
                         metadata |-> metadata, before |-> contexts,
                         outcome |-> r.outcome]
    /\ UNCHANGED <<impl, created, containerVars, pluginVars, pipelineVars, qualityVars, dfVars, stepVars, edaVars, storageVars, managerVars, orchestratorVars>>

delete_context(name) ==
    LET r == DeleteContextResult(contexts, name)
    IN /\ AfterContextCall("delete_context", name, r)
       /\ created' = IF r.outcome.kind = "None" THEN created \ {name} ELSE created
       /\ UNCHANGED <<impl, containerVars, pluginVars, pipelineVars, qualityVars, dfVars, stepVars, edaVars, storageVars, managerVars, orchestratorVars>>

add_notes(name, note) ==
    /\ name \in Keys(contexts) => Len(contexts[name].notes) < MaxNotes
    /\ AfterContextCall("add_notes", name, AddNotesResult(contexts, name, note))
    /\ UNCHANGED <<impl, created, containerVars, pluginVars, pipelineVars, qualityVars, dfVars, stepVars, edaVars, storageVars, managerVars, orchestratorVars>>

get_notes(name) ==
    /\ AfterContextCall("get_notes", name,
                        [contexts |-> contexts,
                         outcome |-> IF name \notin Keys(contexts)
                                     THEN [kind |-> "KeyError", name |-> name]
                                     ELSE [kind |-> "list", value |-> contexts[name].notes]])
    /\ UNCHANGED <<impl, created, containerVars, pluginVars, pipelineVars, qualityVars, dfVars, stepVars, edaVars, storageVars, managerVars, orchestratorVars>>

\* list(self._contexts.keys()): the names, their order left out.
list_contexts ==
    /\ AfterContextCall("list_contexts", None,
                        [contexts |-> contexts,
                         outcome |-> [kind |-> "list", value |-> Keys(contexts)]])
    /\ UNCHANGED <<impl, created, containerVars, pluginVars, pipelineVars, qualityVars, dfVars, stepVars, edaVars, storageVars, managerVars, orchestratorVars>>

(***************************************************************************)
(* OrchestratorAgent (gauai/agents/orchestrator/orchestrator_agent.py):    *)
(* runs the steps of a workflow on registered agents and keeps a history.  *)
(* The timestamp of a history entry is left out.                           *)
(***************************************************************************)
MaxWorkflow == 2

\* The agent objects that get registered.  Their methods: load returns a
\* dict, save returns None, fail raises; any other attribute is missing.
LoaderAgent == [cls |-> "LoaderAgent"]
AgentNames == {"loader", "cleaner"}
MethodNames == {"load", "save", "fail"}

\* What a method call gives.
DictResult(keys) == [type |-> "dict", keys |-> keys]
NoneResult == [type |-> "NoneType", keys |-> {}]
CallMethod(agent, method) ==
    CASE method = "load" -> [kind |-> "returned", value |-> DictResult({"data"})]
      [] method = "save" -> [kind |-> "returned", value |-> NoneResult]
      [] method = "fail" -> [kind |-> "raised", error |-> "RuntimeError"]
      [] OTHER -> [kind |-> "raised", error |-> "AttributeError"]

\* The steps of a workflow, named by their position, with no parameters.
Step(i, agent, method) == [name |-> i, agent |-> agent, method |-> method]
StepConfigs == {<<"loader", "load">>, <<"loader", "save">>, <<"loader", "fail">>,
                <<"cleaner", "load">>}
Workflows ==
    {[i \in Indices(w) |-> Step(i, w[i][1], w[i][2])] : w \in SeqsUpTo(StepConfigs, MaxWorkflow)}

\* {"error": str(e)}.
ErrorResult(error) == [type |-> "dict", keys |-> {"error"}, error |-> error]

\* _execute_step(step_config).
ExecuteStep(agts, step_config) ==
    IF step_config.agent \notin Keys(agts)
    THEN [kind |-> "raised", error |-> "Agent not found"]
    ELSE CallMethod(agts[step_config.agent], step_config.method)

\* _update_execution_history(step_config, result): the entry it appends, or
\* the error of the test '"error" in result' on a result that is no
\* container.
HistoryEntry(step_config, result) ==
    IF result.type # "dict"
    THEN [kind |-> "raised", error |-> "TypeError"]
    ELSE [kind |-> "returned",
          entry |-> [step_name |-> step_config.name, agent |-> step_config.agent,
                     method |-> step_config.method, parameters |-> EmptyDict,
                     status |-> IF "error" \notin result.keys THEN "success" ELSE "error",
                     result_summary |-> IF "error" \in result.keys
                                        THEN [error |-> result.error]
                                        ELSE [output_keys |-> result.keys]]]

\* The loop of execute_workflow from the i-th step on; acc is what the loop
\* has built: results and execution_history.
RECURSIVE WorkflowLoop(_, _, _, _)
WorkflowLoop(acc, steps, agts, i) ==
    IF i > Len(steps) THEN acc
    ELSE LET step == steps[i]
             step_result == ExecuteStep(agts, step)
             entry == HistoryEntry(step, step_result.value)
         IN IF step_result.kind = "raised"
            THEN WorkflowLoop([acc EXCEPT !.results =
                                  DictSet(@, step.name, ErrorResult(step_result.error))],
                              steps, agts, i + 1)
            ELSE IF entry.kind = "raised"
            THEN WorkflowLoop([acc EXCEPT !.results =
                                  DictSet(@, step.name, ErrorResult(entry.error))],
                              steps, agts, i + 1)
            ELSE WorkflowLoop([results |-> DictSet(acc.results, step.name, step_result.value),
                               execution_history |-> Append(acc.execution_history, entry.entry)],
                              steps, agts, i + 1)

OrchestratorInit ==
    /\ agents = EmptyDict
    /\ execution_history = <<>>
    /\ current_context = EmptyDict
    /\ workflowCall = NoCall

OrchestratorIdle == OrchestratorInit

\* register_agent(name, agent).
register_agent(name, agent) ==
    /\ agents' = DictSet(agents, name, agent)
    /\ workflowCall' = [op |-> "register_agent", name |-> name]
    /\ UNCHANGED <<execution_history, current_context>>
    /\ UNCHANGED <<containerVars, pluginVars, pipelineVars, qualityVars, dfVars, stepVars, edaVars, storageVars, managerVars, contextVars>>

\* execute_workflow({"steps": steps}, context), context being None or {}.
execute_workflow(steps) ==
    /\ Len(execution_history) + Len(steps) <= MaxWorkflow
    /\ LET r == WorkflowLoop([results |-> EmptyDict, execution_history |-> execution_history],
                             steps, agents, 1)
       IN /\ execution_history' = r.execution_history
          /\ current_context' = EmptyDict
          /\ workflowCall' = [op |-> "execute_workflow", steps |-> steps,
                              before |-> execution_history, results |-> r.results]
    /\ UNCHANGED agents
    /\ UNCHANGED <<containerVars, pluginVars, pipelineVars, qualityVars, dfVars, stepVars, edaVars, storageVars, managerVars, contextVars>>

(***************************************************************************)
(* The specifications, one per subsystem.                                  *)
(***************************************************************************)
ContainerIdle ==
    /\ heap = EmptyDict
    /\ container = NoContainer
    /\ snapshot = NoContainer

PipelineIdle == PipelineInit

QualityIdle == QualityInit /\ SubjectIdle

DfIdle ==
    /\ transformer = NewTransformer({}, EmptyDict)
    /\ dfCall = NoCall

InitContainer == ContainerInit /\ PluginIdle /\ PipelineIdle /\ QualityIdle /\ DfIdle /\ StepIdle /\ EDAIdle /\ StorageIdle /\ ManagerIdle /\ ContextsIdle /\ OrchestratorIdle
NextContainer ==
    \/ \E module \in {"interfaces", "types"}, category \in Categories :
          Construct(module, category)
    \/ \E f \in Fields, v \in LeafValues : CallerAppend(f, v)
    \/ \E f \in Fields, i \in 1..MaxKids : CallerMutate(f, i)
SpecContainer == InitContainer /\ [][NextContainer]_vars

InitPlugins == ContainerIdle /\ PluginInit /\ PipelineIdle /\ QualityIdle /\ DfIdle /\ StepIdle /\ EDAIdle /\ StorageIdle /\ ManagerIdle /\ ContextsIdle /\ OrchestratorIdle
NextPlugins ==
    \/ \E plugin_class \in PluginClasses : register_plugin(plugin_class)
    \/ \E ext \in Suffixes, plugin_name \in PluginNames \cup {None} :
          get_plugin(ext, plugin_name)
SpecPlugins == InitPlugins /\ [][NextPlugins]_vars

InitPipeline == ContainerIdle /\ PluginIdle /\ PipelineInit /\ QualityIdle /\ DfIdle /\ StepIdle /\ EDAIdle /\ StorageIdle /\ ManagerIdle /\ ContextsIdle /\ OrchestratorIdle
NextPipeline ==
    \/ \E processor \in Processors : register_processor(processor)
    \/ \E name \in PipelineNames, steps \in StepLists : create_pipeline(name, steps)
    \/ \E name \in PipelineNames, data_info \in PipeContainers : execute(name, data_info)
SpecPipeline == InitPipeline /\ [][NextPipeline]_vars

InitRegistries == ContainerIdle /\ PluginIdle /\ PipelineInit /\ QualityIdle /\ DfIdle /\ StepIdle /\ EDAIdle /\ StorageIdle /\ ManagerIdle /\ ContextsIdle /\ OrchestratorIdle
NextRegistries ==
    \/ \E processor \in Processors : register_processor(processor)
    \/ \E check \in Checks : register_check(check)
SpecRegistries == InitRegistries /\ [][NextRegistries]_vars

InitTransformer == ContainerIdle /\ PluginIdle /\ PipelineIdle /\ QualityIdle /\ DfInit /\ StepIdle /\ EDAIdle /\ StorageIdle /\ ManagerIdle /\ ContextsIdle /\ OrchestratorIdle
NextTransformer ==
    \/ \E data_container \in DfContainers : can_transform(data_container)
    \/ \E data_container \in DfContainers : transform(data_container)
SpecTransformer == InitTransformer /\ [][NextTransformer]_vars

InitQuality == ContainerIdle /\ PluginIdle /\ PipelineIdle /\ QualityIdle /\ DfIdle /\ StepIdle /\ EDAIdle /\ StorageIdle /\ ManagerIdle /\ ContextsIdle /\ OrchestratorIdle
NextQuality ==
    \/ \E c \in Checks : register_check(c)
    \/ \E data \in QContainers, check_name \in CheckNames : run_check(data, check_name)
    \/ \E data \in QContainers : run_all_checks(data)
SpecQuality == InitQuality /\ [][NextQuality]_vars

InitCompleteness ==
    /\ ContainerIdle /\ PluginIdle /\ PipelineIdle /\ DfIdle /\ StepIdle /\ EDAIdle /\ StorageIdle /\ ManagerIdle /\ ContextsIdle /\ OrchestratorIdle
    /\ QualityInit /\ SubjectInit
NextCompleteness == completeness_check
SpecCompleteness == InitCompleteness /\ [][NextCompleteness]_vars

InitEDA ==
    /\ ContainerIdle /\ PluginIdle /\ PipelineIdle /\ QualityIdle /\ DfIdle /\ StepIdle
    /\ EDAInit /\ StorageIdle /\ ManagerIdle /\ ContextsIdle /\ OrchestratorIdle
NextEDA ==
    \/ \E analyzer \in AnalyzerClasses : register_analyzer(analyzer)
    \/ \E data \in EDAContainers, analysis_types \in TypeFilters,
          analyzer_names \in NameFilters : analyze(data, analysis_types, analyzer_names)
SpecEDA == InitEDA /\ [][NextEDA]_vars

InitSteps == ContainerIdle /\ PluginIdle /\ PipelineIdle /\ QualityIdle /\ DfIdle /\ StepInit /\ EDAIdle /\ StorageIdle /\ ManagerIdle /\ ContextsIdle /\ OrchestratorIdle
NextSteps ==
    \/ \E self \in StepTransformers : transform_step(self)
    \/ \E self \in StepCleaners : clean_step(self)
SpecSteps == InitSteps /\ [][NextSteps]_vars

InitStorage ==
    /\ ContainerIdle /\ PluginIdle /\ PipelineIdle /\ QualityIdle /\ DfIdle /\ StepIdle /\ EDAIdle
    /\ StorageInit /\ ManagerIdle /\ ContextsIdle /\ OrchestratorIdle
NextStorage ==
    \/ \E name \in StorageNames, data_info \in StorageContainers :
          store(name, data_info, NewId(objects))
    \/ \E name \in StorageNames, id \in DOMAIN objects : store(name, objects[id], id)
    \/ \E name \in StorageNames, category \in CategoryArguments :
          get(name, category)
    \/ \E category \in CategoryArguments \ {None} : list_by_category(category)
    \/ list_all
    \/ \E name \in StorageNames, category \in CategoryArguments :
          delete(name, category)
    \/ \E name \in StorageNames, category \in CategoryArguments :
          get_metadata(name, category)
    \/ \E name \in StorageNames, metadata \in MetadataUpdates,
          category \in CategoryArguments :
          update_metadata(name, metadata, category)
SpecStorage == InitStorage /\ [][NextStorage]_vars

ManagerNames == {None, "raw"}
InitManager ==
    /\ ContainerIdle /\ QualityIdle /\ DfIdle /\ StepIdle /\ EDAIdle
    /\ ManagerInit /\ ContextsIdle /\ OrchestratorIdle
NextManager ==
    \/ \E file_path \in ManagerFiles, name \in ManagerNames,
          pipeline_name \in PipelineNames \cup {None, "nonexistent"},
          plugin_name \in {None, "nonexistent"} :
          process_file(file_path, name, pipeline_name, plugin_name)
    \/ \E name \in ManagerNames, category \in CategoryArguments : get_data(name, category)
    \/ \E category \in CategoryArguments : list_data(category)
SpecManager == InitManager /\ [][NextManager]_vars

\* The two execution paths side by side: the pipeline of a manager after
\* set-up, and DataProcessor objects over lists of the same transformers.
InitPolicies ==
    /\ ContainerIdle /\ QualityIdle /\ DfIdle /\ StepIdle /\ EDAIdle
    /\ ManagerInit /\ ContextsIdle /\ OrchestratorIdle
NextPolicies ==
    \/ \E name \in PipelineNames, data_info \in PipeContainers : execute(name, data_info)
    \/ \E transformers \in TransformerLists, data_container \in PipeContainers :
          process_data_container(transformers, data_container)
SpecPolicies == InitPolicies /\ [][NextPolicies]_vars

\* The DataContextManager of context.py, or the one of managers.py over a
\* DataProcessingManager after set-up.
InitContexts ==
    /\ ContainerIdle /\ QualityIdle /\ DfIdle /\ StepIdle /\ EDAIdle
    /\ ContextsInit /\ OrchestratorIdle
    /\ IF impl = "managers" THEN ManagerInit
       ELSE PluginIdle /\ PipelineIdle /\ StorageIdle /\ ManagerIdle
NextContexts ==
    \/ \E name \in ContextNames, metadata \in ContextMetadata :
          create_context(name, 1, metadata)
    \/ \E name \in ContextNames, file_path \in ContextFiles,
          pipeline_name \in PipelineNames \cup {None} :
          create_context_from_file(name, file_path, pipeline_name)
    \/ \E name \in ContextNames : get_context(name)
    \/ \E name \in ContextNames, data \in ContextData, metadata \in ContextMetadata :
          update_context(name, data, metadata)
    \/ \E name \in ContextNames : delete_context(name)
    \/ \E name \in ContextNames, note \in Notes : add_notes(name, note)
    \/ \E name \in ContextNames : get_notes(name)
    \/ list_contexts
SpecContexts == InitContexts /\ [][NextContexts]_vars

InitOrchestrator ==
    /\ ContainerIdle /\ PluginIdle /\ PipelineIdle /\ QualityIdle /\ DfIdle /\ StepIdle
    /\ EDAIdle /\ StorageIdle /\ ManagerIdle /\ ContextsIdle /\ OrchestratorInit
NextOrchestrator ==
    \/ \E name \in AgentNames : register_agent(name, LoaderAgent)
    \/ \E steps \in Workflows : execute_workflow(steps)
SpecOrchestrator == InitOrchestrator /\ [][NextOrchestrator]_vars


(***************************************************************************)
(* The claims.                                                             *)
(***************************************************************************)

RECURSIVE FoldSteps(_, _, _)
FoldSteps(steps, procs, c) ==
    IF steps = <<>> THEN c
    ELSE LET prev == FoldSteps(SubSeq(steps, 1, Len(steps) - 1), procs, c)
             p == procs[steps[Len(steps)]]
         IN IF CanTransform(p, prev) = "true" THEN Transform(p, prev) ELSE prev

\* C2: when executing a stored pipeline returns, the applied steps are in
\* listed order, the first was given the input and each later one what the
\* one before returned, and the result is the fold of the steps over the input.
C2_ExecuteIsFold ==
    (pipeCall.op = "execute" /\ pipeCall.outcome.kind = "returned") =>
        LET o == pipeCall.outcome
            steps == pipelines[pipeCall.name]
            n == Len(o.applied)
        IN /\ o.result = FoldSteps(steps, processors, pipeCall.data_info)
           /\ o.result = IF n = 0 THEN pipeCall.data_info ELSE o.applied[n].returned
           /\ \A k \in 1..n :
                 /\ o.applied[k].received =
                       IF k = 1 THEN pipeCall.data_info ELSE o.applied[k - 1].returned
                 /\ o.applied[k].returned =
                       Transform(processors[steps[o.applied[k].step]], o.applied[k].received)
                 /\ k > 1 => o.applied[k - 1].step < o.applied[k].step

\* C2 witness: a pipeline of two different steps ran both, and each changed
\* the container it was given.
C2_Witness ==
    /\ pipeCall.op = "execute"
    /\ pipeCall.outcome.kind = "returned"
    /\ Len(pipeCall.outcome.applied) = 2
    /\ pipelines[pipeCall.name][1] # pipelines[pipeCall.name][2]
    /\ pipeCall.outcome.applied[1].returned # pipeCall.data_info
    /\ pipeCall.outcome.applied[2].returned # pipeCall.outcome.applied[1].returned

\* C3: get_plugin without a name, for an extension with several loaders,
\* returns an instance of a loader of the highest priority registered for it.
C3_HighestPriorityReturned ==
    (/\ pluginCall.op = "get_plugin"
     /\ pluginCall.plugin_name = None
     /\ pluginCall.ext \in Keys(plugins)
     /\ Len(plugins[pluginCall.ext]) >= 2) =>
        /\ pluginCall.outcome.kind = "instance"
        /\ \A p \in Range(plugins[pluginCall.ext]) :
              pluginCall.outcome.cls.priority >= p.priority

\* C4: create_pipeline stores the pipeline exactly when the name is new and
\* every step is a registered processor; otherwise it raises ValueError, for
\* an unregistered step naming the first one in list order, and the stored
\* pipelines are what they were.
C4_CreatePipeline ==
    pipeCall.op = "create_pipeline" =>
        LET unregistered == {i \in Indices(pipeCall.steps) :
                                pipeCall.steps[i] \notin Keys(processors)}
            fresh == pipeCall.name \notin Keys(pipeCall.before)
        IN IF fresh /\ unregistered = {}
           THEN /\ pipeCall.outcome.kind = "returned"
                /\ Keys(pipelines) = Keys(pipeCall.before) \cup {pipeCall.name}
                /\ pipelines[pipeCall.name] = pipeCall.steps
                /\ \A n \in Keys(pipeCall.before) : pipelines[n] = pipeCall.before[n]
           ELSE /\ pipeCall.outcome.kind = "ValueError"
                /\ pipelines = pipeCall.before
                /\ fresh =>
                      /\ pipeCall.outcome.msg = "Invalid processor"
                      /\ \E i \in unregistered :
                            /\ \A j \in unregistered : i <= j
                            /\ pipeCall.outcome.name = pipeCall.steps[i]

\* C4 witness: a new pipeline was refused for two different unregistered steps.
C4_Witness ==
    /\ pipeCall.op = "create_pipeline"
    /\ pipeCall.outcome.kind = "ValueError"
    /\ pipeCall.outcome.msg = "Invalid processor"
    /\ Len(pipeCall.steps) = 2
    /\ pipeCall.steps[1] # pipeCall.steps[2]
    /\ \A i \in Indices(pipeCall.steps) : pipeCall.steps[i] \notin Keys(processors)

\* C5: register_processor and register_check under a name that is already
\* registered raise ValueError ("already exists") and leave the registry as
\* it was, the first-registered object still under the name.
C5_DuplicateRegistrationFails ==
    /\ (pipeCall.op = "register_processor"
        /\ pipeCall.processor.name \in Keys(pipeCall.before)) =>
           /\ pipeCall.outcome.kind = "ValueError"
           /\ pipeCall.outcome.msg = "already exists"
           /\ processors = pipeCall.before
    /\ (checkCall.op = "register_check"
        /\ checkCall.check.name \in Keys(checkCall.before)) =>
           /\ checkCall.outcome.kind = "ValueError"
           /\ checkCall.outcome.msg = "already exists"
           /\ checks = checkCall.before

\* C5 witness: both registries have just refused an object that is not the
\* one registered under its name.
C5_Witness ==
    /\ pipeCall.op = "register_processor"
    /\ pipeCall.processor.name \in Keys(pipeCall.before)
    /\ pipeCall.before[pipeCall.processor.name] # pipeCall.processor
    /\ checkCall.op = "register_check"
    /\ checkCall.check.name \in Keys(checkCall.before)
    /\ checkCall.before[checkCall.check.name] # checkCall.check

\* C6: register_plugin of a loader that is already registered for one of its
\* extensions raises.
C6_DuplicatePluginRaises ==
    (/\ pluginCall.op = "register_plugin"
     /\ \E i \in Indices(pluginCall.plugin_class.supported_extensions) :
           LET ext == pluginCall.plugin_class.supported_extensions[i]
           IN ext \in Keys(pluginCall.before)
              /\ pluginCall.plugin_class \in Range(pluginCall.before[ext])) =>
        pluginCall.outcome = "ValueError"

\* C7: get_plugin with a plugin name returns an instance of the loader of
\* that name or raises a "not found" error that names the available loaders.
C7_NamedLookupReturnsOrRaises ==
    (pluginCall.op = "get_plugin" /\ pluginCall.plugin_name # None) =>
        \/ /\ pluginCall.outcome.kind = "instance"
           /\ pluginCall.outcome.cls.name = pluginCall.plugin_name
        \/ /\ pluginCall.outcome.kind = "ValueError"
           /\ pluginCall.outcome.msg = "not found"

\* Every column a transformer's configuration names: the keys of the five
\* typed maps and of the rename map.
ReferencedColumns(self) == AllSpecifiedColumns(self) \cup Keys(self.rename_columns)

\* The five typed maps' keys, read off the transformer.
TypedColumns(self) ==
    {c \in ColumnNames : \E m \in {self.text_columns, self.datetime_columns,
                                   self.numeric_columns, self.categorical_columns,
                                   self.boolean_columns} : c \in DOMAIN m}

OnlySpec(self, target, col) ==
    /\ self.rename_columns = EmptyDict
    /\ \A t \in Targets :
          LET m == CASE t = "text" -> self.text_columns
                     [] t = "datetime" -> self.datetime_columns
                     [] t = "numeric" -> self.numeric_columns
                     [] t = "categorical" -> self.categorical_columns
                     [] OTHER -> self.boolean_columns
          IN IF t = target THEN DOMAIN m = {col} ELSE DOMAIN m = {}

\* C9: a numeric column specification that does not set errors to "raise"
\* turns a non-numeric string into the missing marker, and the transform
\* call returns.
C9_NonNumericBecomesMissing ==
    \A col \in ColumnNames :
        (/\ dfCall.op = "transform"
         /\ OnlySpec(transformer, "numeric", col)
         /\ transformer.numeric_columns[col].errors # "raise"
         /\ dfCall.input.category = "TABULAR"
         /\ dfCall.input.data.type = "DataFrame"
         /\ col \in Keys(dfCall.input.data.cols)
         /\ dfCall.input.data.cols[col] \in NonNumericStrings) =>
            /\ dfCall.outcome.kind = "returned"
            /\ dfCall.outcome.container.data.cols[col].val = "NaN"

\* The options a transformer holds for a column of a target type.
OptionsOf(self, target, col) ==
    CASE target = "text" -> self.text_columns[col]
      [] target = "datetime" -> self.datetime_columns[col]
      [] target = "numeric" -> self.numeric_columns[col]
      [] target = "categorical" -> self.categorical_columns[col]
      [] OTHER -> self.boolean_columns[col]

\* C10: for each of the five target types, when the conversion of a column
\* fails, the transform call returns with the column as it was, unless the
\* column's options set errors to "raise", and then the call fails with an
\* error naming the column and the target type.
C10_ConversionErrorPolicy ==
    \A target \in Targets, col \in ColumnNames :
        (/\ dfCall.op = "transform"
         /\ OnlySpec(transformer, target, col)
         /\ dfCall.input.category = "TABULAR"
         /\ dfCall.input.data.type = "DataFrame"
         /\ col \in Keys(dfCall.input.data.cols)
         /\ ~Conversion(target, dfCall.input.data.cols[col],
                        OptionsOf(transformer, target, col)).ok) =>
            IF OptionsOf(transformer, target, col).errors = "raise"
            THEN /\ dfCall.outcome.kind = "ValueError"
                 /\ dfCall.outcome.column = col
                 /\ dfCall.outcome.target = target
            ELSE /\ dfCall.outcome.kind = "returned"
                 /\ dfCall.outcome.container.data.cols[col] = dfCall.input.data.cols[col]

\* The metadata key under which a processor keeps its history.
HistoryKey(name) ==
    IF name = "pandas_df_transformer" THEN "type_conversion_history" ELSE "cleaning_history"

\* The transforms of one processor among those applied, in application order.
AppliedBy(name) == SelectSeq(applied, LAMBDA p : p.name = name)

\* The history under key is the input's history with one record appended
\* that carries the processor's name.
OneRecordAppended(in, out, key, name) ==
    LET old == GetList(in, key)
    IN /\ key \in Keys(out)
       /\ Len(out[key]) = Len(old) + 1
       /\ SubSeq(out[key], 1, Len(old)) = old
       /\ out[key][Len(old) + 1].processor = name

\* After n transforms of a processor its history holds n records that carry
\* its name, and a PandasDfTransformer's records echo the applied
\* configurations in application order.
HistoryFollowsApplication ==
    \A name \in {"pandas_df_transformer", "text_cleaner"} :
        LET history == GetList(current.metadata, HistoryKey(name))
        IN /\ Len(history) = Len(AppliedBy(name))
           /\ \A i \in Indices(history) :
                 /\ history[i].processor = name
                 /\ name = "pandas_df_transformer" =>
                       history[i].transformations = AppliedBy(name)[i].self

\* C11 as stated: a transform that returns appends exactly one record with
\* the processor's name to the history of its input, keeps the earlier
\* records in order and carries every other metadata key forward with its
\* value; after n transforms the history holds n records in application
\* order.
C11_HistoryAppended ==
    /\ HistoryFollowsApplication
    /\ (stepCall.op = "transform" /\ stepCall.outcome.kind = "returned") =>
          LET in == stepCall.input.metadata
              out == stepCall.outcome.container.metadata
              key == HistoryKey(stepCall.processor.name)
          IN /\ OneRecordAppended(in, out, key, stepCall.processor.name)
             /\ \A k \in Keys(in) \ {key} : k \in Keys(out) /\ out[k] = in[k]

\* C11, amended: as above, except that PandasDfTransformer sets the key
\* "column_dtypes" to the dtypes of the table it returns, whatever the
\* input's metadata held under it; every key other than the history and
\* "column_dtypes" is carried forward with its value.
C11_HistoryAppendedDtypesReset ==
    /\ HistoryFollowsApplication
    /\ (stepCall.op = "transform" /\ stepCall.outcome.kind = "returned") =>
          LET in == stepCall.input.metadata
              out == stepCall.outcome.container.metadata
              name == stepCall.processor.name
              key == HistoryKey(name)
          IN /\ OneRecordAppended(in, out, key, name)
             /\ \A k \in Keys(in) \ {key, "column_dtypes"} :
                   k \in Keys(out) /\ out[k] = in[k]
             /\ name = "pandas_df_transformer" =>
                   /\ "column_dtypes" \in Keys(out)
                   /\ out["column_dtypes"] = ColumnDtypes(stepCall.outcome.container.data)
             /\ (name = "text_cleaner" /\ "column_dtypes" \in Keys(in)) =>
                   /\ "column_dtypes" \in Keys(out)
                   /\ out["column_dtypes"] = in["column_dtypes"]

\* Two PandasDfTransformer transforms in a row on a table that a loader
\* tagged: the history holds two records and the tag is still there.
C11_Witness ==
    /\ Len(applied) = 2
    /\ applied[1].name = "pandas_df_transformer"
    /\ applied[2].name = "pandas_df_transformer"
    /\ applied[1].self # applied[2].self
    /\ "implementation" \in Keys(current.metadata)
    /\ Len(current.metadata["type_conversion_history"]) = 2

\* The columns a step's configuration names: for a PandasDfTransformer the
\* keys of its five typed maps and of its rename map, for a TextCleaner the
\* entries of its column list.
NamedColumns(processor) ==
    IF processor.name = "pandas_df_transformer"
    THEN ReferencedColumns(processor.self)
    ELSE Range(processor.self.columns.list)

\* C12: a transform of a table by a PandasDfTransformer, or by a TextCleaner
\* that was given a column list, leaves every column its configuration does
\* not name in the output table under the same name and with the same cell
\* values.
C12_UnnamedColumnsKept ==
    (/\ stepCall.op = "transform"
     /\ stepCall.outcome.kind = "returned"
     /\ stepCall.input.data.type = "DataFrame"
     /\ (stepCall.processor.name = "text_cleaner" => ~stepCall.processor.self.columns.is_none)) =>
        LET in == stepCall.input.data.cols
            out == stepCall.outcome.container.data.cols
        IN \A c \in Keys(in) \ NamedColumns(stepCall.processor) :
              c \in Keys(out) /\ out[c] = in[c]

\* The names of the checks that run_all_checks saw registered, that handle
\* the container and whose error was not printed, in registration order.
Performed(call) ==
    SelectSeq(call.order,
              LAMBDA n : CanHandle(call.before[n], call.data) /\ n \notin call.logged)

\* C13: run_all_checks returns a report whose checks_performed holds, in
\* registration order, exactly one result for each registered check that
\* handles the container and whose check call did not raise; a check that
\* raises is left out and the run goes on; a TEXT container with only the
\* built-in completeness check gives a report with zero checks.
C13_RunAllChecksReport ==
    checkCall.op = "run_all_checks" =>
        LET results == checkCall.outcome.report.checks_performed
        IN /\ checkCall.outcome.kind = "returned"
           /\ Len(results) = Len(Performed(checkCall))
           /\ \A i \in Indices(results) : results[i].check_name = Performed(checkCall)[i]
           /\ \A n \in Keys(checkCall.before) :
                 (checkCall.before[n].kind = "raising") =>
                     /\ n \in checkCall.logged
                     /\ \A i \in Indices(results) : results[i].check_name # n
           /\ (checkCall.data.category = "TEXT"
                 /\ Keys(checkCall.before) = {"completeness_check"}) => results = <<>>
           /\ checkCall.outcome.report.metadata.total_checks = Len(results)

\* A run over the built-in check, a check that raises and, registered after
\* it, a check that passes: the report holds the first and the last.
C13_Witness ==
    /\ checkCall.op = "run_all_checks"
    /\ checkCall.order = <<"completeness_check", "range_check", "custom_check">>
    /\ checkCall.logged = {"range_check"}
    /\ Len(checkCall.outcome.report.checks_performed) = 2
    /\ checkCall.outcome.report.checks_performed[2].check_name = "custom_check"

\* C14 as stated: run_check raises ValueError when the name is not
\* registered ('not found') or the named check cannot handle the container;
\* otherwise it returns a report whose checks_performed is that single
\* result.
C14_RunCheckReturnsReport ==
    checkCall.op = "run_check" =>
        IF checkCall.check_name \notin Keys(checkCall.before)
        THEN checkCall.outcome.kind = "ValueError" /\ checkCall.outcome.msg = "not found"
        ELSE IF ~CanHandle(checkCall.before[checkCall.check_name], checkCall.data)
             THEN checkCall.outcome.kind = "ValueError"
        ELSE /\ checkCall.outcome.kind = "returned"
             /\ Len(checkCall.outcome.report.checks_performed) = 1
             /\ checkCall.outcome.report.checks_performed[1].check_name = checkCall.check_name

\* C14, amended: as above, except that when the named check's check call
\* raises, run_check returns no report: the check's exception leaves
\* run_check as it is.
C14_RunCheck ==
    checkCall.op = "run_check" =>
        IF checkCall.check_name \notin Keys(checkCall.before)
        THEN checkCall.outcome.kind = "ValueError" /\ checkCall.outcome.msg = "not found"
        ELSE IF ~CanHandle(checkCall.before[checkCall.check_name], checkCall.data)
             THEN checkCall.outcome.kind = "ValueError"
        ELSE /\ checkCall.outcome \in
                   {IF o.kind = "returned"
                    THEN [kind |-> "returned",
                          report |-> QualityReport(checkCall.data, <<o.result>>,
                                        [check_name |-> checkCall.check_name,
                                         data_category |-> checkCall.data.category])]
                    ELSE o :
                       o \in CheckOutcomes(checkCall.before[checkCall.check_name],
                                           checkCall.data)}
             /\ checkCall.outcome.kind = "returned" =>
                   /\ Len(checkCall.outcome.report.checks_performed) = 1
                   /\ checkCall.outcome.report.checks_performed[1].check_name
                         = checkCall.check_name
             /\ checkCall.before[checkCall.check_name].kind = "raising" =>
                   checkCall.outcome.kind = "RuntimeError"
             /\ checkCall.before[checkCall.check_name].kind = "passing" =>
                   checkCall.outcome.kind = "returned"

\* run_check of a registered check of a test on a table returned a report
\* with that check's result alone.
C14_Witness ==
    /\ checkCall.op = "run_check"
    /\ checkCall.check_name = "custom_check"
    /\ checkCall.outcome.kind = "returned"
    /\ checkCall.outcome.report.checks_performed[1].check_name = "custom_check"
    /\ Keys(checkCall.before) = {"completeness_check", "custom_check", "range_check"}

\* A tabular container whose payload is a table.
IsTable(data) == data.category = "TABULAR" /\ data.data.type = "DataFrame"

\* C15: CompletenessCheck.check on a table with no row and no column returns
\* (no division-by-zero fault) and reports total_cells = 0, total_missing = 0
\* and status = true.
C15_EmptyTableComplete ==
    (/\ checkCall.op = "check"
     /\ IsTable(checkCall.data)
     /\ checkCall.data.data.rows = 0
     /\ checkCall.data.data.missing = <<>>) =>
        /\ checkCall.outcome.kind = "returned"
        /\ checkCall.outcome.result.details.total_cells = 0
        /\ checkCall.outcome.result.details.total_missing = 0
        /\ checkCall.outcome.result.status = TRUE

C17_AnalyzeReport ==
    edaCall.op = "analyze" =>
        LET expected ==
                SelectSeq(edaCall.order,
                    LAMBDA n :
                        /\ CanAnalyze(edaCall.before[n], edaCall.data)
                        /\ (edaCall.analysis_types # <<>> =>
                              edaCall.before[n].analysis_type \in Range(edaCall.analysis_types))
                        /\ (edaCall.analyzer_names # <<>> =>
                              n \in Range(edaCall.analyzer_names))
                        /\ n \notin edaCall.logged)
        IN /\ edaCall.outcome.kind = "returned"
           /\ Len(edaCall.outcome.value.analyses) = Len(expected)
           /\ \A i \in Indices(expected) :
                 edaCall.outcome.value.analyses[i].analysis_name = expected[i]

\* C18: after delete(name), with or without a category, has returned True,
\* get(name) returns None (checked in the state delete leaves: store is the
\* only call that adds a name); delete returns False exactly when nothing
\* was stored under name, in the given category or in any category when
\* none is given, and the storage is then unchanged.
C18_DeleteThenGetNone ==
    storageCall.op = "delete" =>
        LET name == storageCall.name
            category == storageCall.category
            before == storageCall.before
            stored == IF category # None THEN name \in Keys(before[category])
                      ELSE \E c \in Range(DataCategory) : name \in Keys(before[c])
        IN /\ storageCall.outcome.value => Get(storage, name, None) = NoObject
           /\ ~storageCall.outcome.value <=> ~stored
           /\ ~storageCall.outcome.value => storage = before

\* C19: after process_file(path, name=n) has succeeded with a name given,
\* get_data(n) returns the container process_file returned (the object it
\* stored, the pipeline's output when a pipeline was named), and n is
\* listed by list_data under that container's category.
C19_ProcessedDataRetrievable ==
    (/\ managerCall.op = "process_file"
     /\ managerCall.outcome.kind = "returned"
     /\ managerCall.name # None) =>
        LET n == managerCall.name
            returned == managerCall.outcome.value
            found == Get(storage, n, None)
        IN /\ n \in Keys(storage[returned.category])
           /\ found = storage[returned.category][n]
           /\ objects[found] = returned

\* C20: when process_file fails (no loader for the file's extension, a
\* loader error, an unknown pipeline name or an error in a pipeline step)
\* it raises an error and returns no container, and the data storage, the
\* names it holds and the containers they refer to, is exactly as it was
\* before the call.
C20_FailureLeavesStorage ==
    (managerCall.op = "process_file" /\ managerCall.outcome.kind # "returned") =>
        /\ managerCall.outcome.kind \in {"ValueError", "FileNotFoundError", "KeyError"}
        /\ "value" \notin DOMAIN managerCall.outcome
        /\ storage = managerCall.before.storage
        /\ objects = managerCall.before.objects

\* A pipeline step raised in a call made when a container was already stored
\* under the name the call was given.
C20_Witness ==
    /\ managerCall.op = "process_file"
    /\ managerCall.outcome.kind = "ValueError"
    /\ managerCall.outcome.msg = "pipeline step"
    /\ managerCall.name # None
    /\ Get(storage, managerCall.name, None) # NoObject

\* C21: in DataContextManager, create_context with a name that already
\* exists raises ValueError, and get_context, update_context,
\* delete_context, add_notes and get_notes with a name that does not exist
\* raise KeyError; in every such failure the set of contexts and each
\* context's data, metadata and notes are as they were before the call.
C21_FailuresLeaveContexts ==
    /\ (ctxCall.op = "create_context" /\ ctxCall.name \in Keys(ctxCall.before)) =>
           /\ ctxCall.outcome.kind = "ValueError"
           /\ contexts = ctxCall.before
    /\ (/\ ctxCall.op \in {"get_context", "update_context", "delete_context",
                           "add_notes", "get_notes"}
        /\ ctxCall.name \notin Keys(ctxCall.before)) =>
           /\ ctxCall.outcome.kind = "KeyError"
           /\ contexts = ctxCall.before

\* create_context was given the name of a context that has notes.
C21_Witness ==
    /\ ctxCall.op = "create_context"
    /\ ctxCall.name \in Keys(ctxCall.before)
    /\ ctxCall.outcome.kind = "ValueError"
    /\ ctxCall.before[ctxCall.name].notes # <<>>

\* C22: after delete_context(name) the name is not a context any more, so
\* that get_context(name) and get_notes(name) raise KeyError and
\* list_contexts leaves it out; list_contexts returns exactly the names
\* created and not deleted since; a context created, also under a name used
\* before, starts with no notes.
C22_DeletedIsGone ==
    /\ Keys(contexts) = created
    /\ (ctxCall.op = "delete_context" /\ ctxCall.outcome.kind = "None") =>
           ctxCall.name \notin Keys(contexts)
    /\ (ctxCall.op \in {"get_context", "get_notes"} /\ ctxCall.name \notin created) =>
           ctxCall.outcome.kind = "KeyError"
    /\ ctxCall.op = "list_contexts" => ctxCall.outcome.value = created
    /\ (ctxCall.op = "create_context" /\ ctxCall.outcome.kind = "None") =>
           contexts[ctxCall.name].notes = <<>>

\* A context that had notes was deleted while another one was kept.
C22_Witness ==
    /\ ctxCall.op = "delete_context"
    /\ ctxCall.outcome.kind = "None"
    /\ ctxCall.before[ctxCall.name].notes # <<>>
    /\ contexts # EmptyDict

\* C23: update_context(name, data, metadata) on an existing context
\* succeeds, and the context then has the new data and the new metadata, in
\* the implementation of context.py and in the one of managers.py.
C23_UpdateSucceeds ==
    (ctxCall.op = "update_context" /\ ctxCall.name \in Keys(ctxCall.before)) =>
        /\ ctxCall.outcome.kind = "None"
        /\ contexts[ctxCall.name].data = ctxCall.data
        /\ contexts[ctxCall.name].metadata = ctxCall.metadata

\* C24: a container held in the storage keeps the data and the metadata it
\* was constructed with: no call changes them in place, a change appears
\* only as a new container.
C24_NeverChangedInPlace ==
    \A id \in DOMAIN objects : objects[id] \in StorageContainers

\* C25: registering an analyzer under a name the registry already holds
\* fails, and the entry registered first stays in place.
C25_FirstRegisteredStays ==
    (edaCall.op = "register_analyzer" /\ edaCall.analyzer.name \in Keys(edaCall.before)) =>
        /\ edaCall.outcome.kind # "returned"
        /\ analyzers[edaCall.analyzer.name] = edaCall.before[edaCall.analyzer.name]

\* A pipeline passed over a step whose can_transform returned False.
StepSkipped ==
    /\ pipeCall.op = "execute"
    /\ pipeCall.outcome.kind = "returned"
    /\ Len(pipeCall.outcome.applied) < Len(pipelines[pipeCall.name])

\* A call ended with an error at a step that cannot transform the container.
StepRaised ==
    /\ pipeCall.op \in {"execute", "process_data_container"}
    /\ pipeCall.outcome.kind = "ValueError"

\* C26: one policy for a step that cannot transform the container holds on
\* every execution path: an execution that skips such a step is never
\* followed by one that raises on one, nor a raising one by a skipping one.
C26_OnePolicy ==
    [][/\ ~(StepSkipped /\ StepRaised')
       /\ ~(StepRaised /\ StepSkipped')]_vars

\* C27: every step name of every stored pipeline is a key of the processor
\* registry, whatever was registered or created before or after, and the
\* execution of a stored pipeline never fails to find a step's processor.
C27_StepsResolve ==
    /\ \A name \in Keys(pipelines) :
           \A i \in Indices(pipelines[name]) : pipelines[name][i] \in Keys(processors)
    /\ pipeCall.op = "execute" => pipeCall.outcome.kind # "KeyError"

\* A stored pipeline of two steps was executed in a registry that holds
\* more processors than the pipeline names.
C27_Witness ==
    /\ pipeCall.op = "execute"
    /\ Len(pipelines[pipeCall.name]) >= 2
    /\ Cardinality(Keys(processors)) > Cardinality(Range(pipelines[pipeCall.name]))

C29_OneCategoryPerName ==
    /\ \A name \in StorageNames :
           Cardinality({c \in Range(DataCategory) : name \in Keys(storage[c])}) <= 1
    /\ storageCall.op = "store" =>
           Returned(objects, Get(storage, storageCall.name, None)).value
               = storageCall.data_info

\* The method of the step is found on a registered agent and returns.
ReturnsNormally(step) ==
    /\ step.agent \in Keys(agents)
    /\ step.method \in {"load", "save"}

\* The names of the steps of s whose method returned normally, in order.
RECURSIVE NormalSteps(_)
NormalSteps(s) ==
    IF s = <<>> THEN <<>>
    ELSE LET rest == NormalSteps(SubSeq(s, 1, Len(s) - 1))
         IN IF ReturnsNormally(s[Len(s)]) THEN Append(rest, s[Len(s)].name) ELSE rest

\* C30: execute_workflow runs every step in order even when earlier steps
\* fail: results has an entry for each step name, the entry of a step whose
\* agent is unknown or whose method raises is {'error': ...}, and
\* execution_history gains one entry per step whose method returned
\* normally, in execution order, and none for a failed step.
C30_WorkflowHistory ==
    workflowCall.op = "execute_workflow" =>
        LET steps == workflowCall.steps
            gained == SubSeq(execution_history, Len(workflowCall.before) + 1,
                             Len(execution_history))
        IN /\ Keys(workflowCall.results) = {steps[i].name : i \in Indices(steps)}
           /\ \A i \in Indices(steps) :
                  ~ReturnsNormally(steps[i]) =>
                      workflowCall.results[steps[i].name].keys = {"error"}
           /\ SubSeq(execution_history, 1, Len(workflowCall.before)) = workflowCall.before
           /\ [i \in Indices(gained) |-> gained[i].step_name] = NormalSteps(steps)

====
